---- MODULE Spec2Model ----
(***************************************************************************)
(* A model of SNIProxy-rs: the accept loop with admission control and      *)
(* graceful shutdown (sniproxy-core/src/lib.rs), the backend connection    *)
(* pool (connection_pool.rs), the per-connection handler and the           *)
(* bidirectional splice (connection.rs, http.rs).                          *)
(*                                                                         *)
(* Each component has its own variables, initial condition and next-state  *)
(* relation; a specification runs one component and leaves the variables   *)
(* of the others at their initial values.  Time is a discrete clock `now`  *)
(* (seconds); a pending tokio timeout stops the clock at its deadline      *)
(* until the timeout or the awaited operation has been taken.              *)
(***************************************************************************)
EXTENDS Integers, Sequences, FiniteSets, TLC

VARIABLES
    now,                  \* the clock, in seconds
    \* ---- run_proxy (lib.rs) ----
    mainPc,               \* position of run_proxy: "select", "drain", "returned"
    cfg_max_connections,  \* config.max_connections.unwrap_or(10000)
    connection_semaphore, \* permits available in the admission semaphore
    active_connections,   \* the AtomicUsize counter
    connection_handles,   \* the JoinHandles kept by the accept loop (task ids)
    taskState,            \* per connection id: "none", "running", "refused", or how the
                          \* task ended: "ok", "err" (handle_connection logged an error), "panic"
    nextConn,             \* number of connections accepted so far
    lastAccept,           \* outcome of the last accept(): [listener, result]
    shutdownKind,         \* "none", "broadcast" or "ctrl_c"
    drainStart,           \* the instant the drain timeout was armed
    returnedAt,           \* the instant run_proxy returned, -1 before
    \* ---- ConnectionPool (connection_pool.rs) ----
    pool_config,          \* PoolConfig
    pools,                \* DashMap<String, Vec<PooledConnection>>: host -> bucket
    poolKeys,             \* the hosts that have a bucket in the map
    held,                 \* streams owned by callers (dialled or vended)
    closed,               \* streams that were dropped
    pool_metrics,         \* PoolMetrics: the pool_size gauge
    lastGet,              \* the last get(): what it returned, the entry's age and
                          \* idle time, and the counters it incremented
    lastPut,              \* what the last put / put_with_http_info returned:
                          \* "true", "false", "none" before the first
    \* ---- the splice (connection.rs copy_bidirectional_timeout, http.rs tunnel_http) ----
    splicePath,           \* the handler that spliced: "tls", "http1", "h2c", "ssh"
    spliceMetrics,        \* whether the handler has metrics (a registry was given)
    dirPc,                \* per direction: "read", "write", "shutdown", "done",
                          \* "failed", "cancelled"
    peerLeft,             \* per direction: chunks the sending peer may still send
    inflight,             \* per direction: chunks received and not yet read
    peerFin,              \* per direction: the sending peer closed its write side
    readStart,            \* per direction: the instant the pending read was issued
    carried,              \* per direction: chunks read and being written
    writeShut,            \* per direction: the proxy shut down the destination's write side
    spliceResult,         \* "running", "ok", "err": what the join returned
    \* ---- one connection handler (connection.rs process_connection and below) ----
    hProto,               \* what the client speaks: "tls", "http1", "h2c", "ssh", "unknown"
    hHost,                \* the SNI, Host value or :authority the client sends
    hAllowlist,           \* config.allowlist: a sequence of patterns, <<>> when absent
    hHasAllowlist,        \* config.allowlist.is_some()
    hHasPool,             \* the handler was built with a connection pool
    hPc,                  \* the operation the handler awaits, or "done_ok", "done_err"
    hStageStart,          \* the instant the awaited operation was issued
    hDialStart,           \* the instant resolution of the backend began, -1 before
    hReads,               \* reads done by extract_host
    hBackend,             \* backend activity so far: "pool_get", "dns", "connect", "write"
    hMetrics,        \* what handle_connection recorded when the connection ended
    \* ---- the bytes of one TLS connection (connection.rs handle_https) ----
    tStream,              \* the bytes the client means to send, in order
    tSent,                \* how many of them have arrived at the proxy
    tFin,                 \* the client's FIN has arrived
    tSock,                \* bytes in the client socket's receive queue
    tBuf,                 \* unread bytes inside the BufReader
    record,               \* the `record` vector of handle_https
    tPc,                  \* "peek", "header", "body", "dial", "write", "splice", "done_ok", "done_err"
    tBackend,              \* bytes written to the backend, in order
    \* ---- MetricLabelCache (metrics_cache.rs) ----
    cache,                \* DashMap<(String, String), Arc<str>>: key -> the Arc, NoArc if vacant
    shardLock,            \* per shard: the task holding its write lock, 0 if free
    lcPc,                 \* per task: "idle", "entry" (waiting for the shard), "locked"
    lcKey,                \* per task: the (host, protocol) of its call
    lcVacant,             \* per task: entry() returned Entry::Vacant
    lcConstructed,        \* per key: how many label strings were constructed for it
    lcReturned,           \* per key: the Arcs callers have received
    lcCalls,               \* calls made so far
    sniRecord,       \* the bytes handed to the parsers, with their description
    sniResult,       \* what extract_sni returned
    alpnResult,       \* what extract_alpn returned
    dpBuf,           \* the peeked bytes handed to detect_protocol
    dpResult,         \* the Protocol it returned
    alHost,          \* the hostname given to the allowlist functions
    alList,          \* the allowlist
    alMatches,       \* what matches_allowlist_pattern returned, per pattern
    alAllowed,        \* what is_host_allowed returned
    hxStream,        \* the bytes the client sends, with their description
    hxBuffer,        \* buffer of extract_host
    hxTotalRead,     \* total_read of extract_host
    hxEnd,           \* what find_headers_end returned last (0: None)
    hxResult,         \* what extract_host returned
    hlBlock,         \* length of the header block the client sends
    hlTotalRead,     \* total_read of extract_host
    hlReads,         \* reads made so far
    hlResult,         \* what extract_host returned
    swOwner,         \* who built the pool: run_proxy or a user of the pool's API
    swEnabled,       \* PoolConfig.enabled
    swInterval,      \* cleanup_interval, seconds
    swPc,            \* the owner: in its loop, or returned
    swTask,          \* the cleanup task: none or running
    swNextTick,      \* when the ticker fires next
    swLastCleanup,   \* when cleanup() ran last (0: never yet)
    swCleanups,       \* calls of cleanup()
    h2Stream,        \* what the h2c client sends: first frame and later bytes
    h2Sent,          \* bytes of it that have arrived
    h2Fin,           \* the client has closed
    h2Sock,          \* bytes in the socket, not yet read
    h2Pc,            \* where handle_http2_cleartext stands
    h2Read,          \* preface_buffer, frame_header and payload as read so far
    h2Host,          \* the authority extracted
    h2Target,        \* target_addr
    h2Backend,        \* bytes written to the backend
    kaConfig,        \* PoolConfig of the pool the stream cycles through
    kaBucket,        \* the bucket of the one host
    kaHeld,          \* streams in the hands of a caller
    kaVended,        \* times get has handed each stream out
    kaEvicted,        \* streams the pool dropped
    udSessions,      \* the UDP session table, by client address
    udTask,          \* each UDP listener task: where it stands, whose datagram it handles
    udHandlers,      \* the response handler task of each session
    udNext,          \* sessions created so far
    udLast,          \* the last client datagram and what became of it
    udToClient,       \* the client the last backend datagram was sent to
    qEntries,        \* the entries of the QPACK dynamic table, most recent first
    current_size,    \* its current_size
    qPc,             \* each task: idle, or between the two statements of clear
    qCalls,           \* calls made so far
    pkStream,        \* the bytes the client sends first
    pkArrived,       \* how many of them the proxy's socket has received
    pkBuf,           \* what the classification peek returned
    pkProtocol       \* the Protocol chosen, "none" before, "error" on failure

proxyVars == <<mainPc, cfg_max_connections, connection_semaphore, active_connections,
               connection_handles, taskState, nextConn, lastAccept, shutdownKind,
               drainStart, returnedAt>>

poolVars == <<pool_config, pools, poolKeys, held, closed, pool_metrics, lastGet, lastPut>>

spliceVars == <<splicePath, spliceMetrics, dirPc, peerLeft, inflight, peerFin, readStart,
                carried, writeShut, spliceResult>>

handlerVars == <<hProto, hHost, hAllowlist, hHasAllowlist, hHasPool, hPc, hStageStart,
                 hDialStart, hReads, hBackend, hMetrics>>

tlsVars == <<tStream, tSent, tFin, tSock, tBuf, record, tPc, tBackend>>

labelVars == <<cache, shardLock, lcPc, lcKey, lcVacant, lcConstructed, lcReturned, lcCalls>>

sniVars == <<sniRecord, sniResult, alpnResult>>

detectVars == <<dpBuf, dpResult>>

allowVars == <<alHost, alList, alMatches, alAllowed>>

httpVars == <<hxStream, hxBuffer, hxTotalRead, hxEnd, hxResult>>

limitVars == <<hlBlock, hlTotalRead, hlReads, hlResult>>

sweepVars == <<swOwner, swEnabled, swInterval, swPc, swTask, swNextTick, swLastCleanup, swCleanups>>

h2cVars == <<h2Stream, h2Sent, h2Fin, h2Sock, h2Pc, h2Read, h2Host, h2Target, h2Backend>>

reuseVars == <<kaConfig, kaBucket, kaHeld, kaVended, kaEvicted>>

udpVars == <<udSessions, udTask, udHandlers, udNext, udLast, udToClient>>

qpackVars == <<qEntries, current_size, qPc, qCalls>>

peekVars == <<pkStream, pkArrived, pkBuf, pkProtocol>>

vars == <<now, proxyVars, poolVars, spliceVars, handlerVars, tlsVars, labelVars, sniVars, detectVars, allowVars, httpVars, limitVars, sweepVars, h2cVars, reuseVars, udpVars, qpackVars, peekVars>>

\* What an action of one component leaves alone in the others.
notProxy == <<poolVars, spliceVars, handlerVars, tlsVars, labelVars, sniVars, detectVars, allowVars, httpVars, limitVars, sweepVars, h2cVars, reuseVars, udpVars, qpackVars, peekVars>>
notPool == <<proxyVars, spliceVars, handlerVars, tlsVars, labelVars, sniVars, detectVars, allowVars, httpVars, limitVars, sweepVars, h2cVars, reuseVars, udpVars, qpackVars, peekVars>>
notSplice == <<proxyVars, poolVars, handlerVars, tlsVars, labelVars, sniVars, detectVars, allowVars, httpVars, limitVars, sweepVars, h2cVars, reuseVars, udpVars, qpackVars, peekVars>>
notHandler == <<proxyVars, poolVars, spliceVars, tlsVars, labelVars, sniVars, detectVars, allowVars, httpVars, limitVars, sweepVars, h2cVars, reuseVars, udpVars, qpackVars, peekVars>>
notTls == <<now, proxyVars, poolVars, spliceVars, handlerVars, labelVars, sniVars, detectVars, allowVars, httpVars, limitVars, sweepVars, h2cVars, reuseVars, udpVars, qpackVars, peekVars>>
notLabels == <<now, proxyVars, poolVars, spliceVars, handlerVars, tlsVars, sniVars, detectVars, allowVars, httpVars, limitVars, sweepVars, h2cVars, reuseVars, udpVars, qpackVars, peekVars>>
notSni == <<now, proxyVars, poolVars, spliceVars, handlerVars, tlsVars, labelVars, detectVars, allowVars, httpVars, limitVars, sweepVars, h2cVars, reuseVars, udpVars, qpackVars, peekVars>>
notDetect == <<now, proxyVars, poolVars, spliceVars, handlerVars, tlsVars, labelVars, sniVars, allowVars, httpVars, limitVars, sweepVars, h2cVars, reuseVars, udpVars, qpackVars, peekVars>>
notAllow == <<now, proxyVars, poolVars, spliceVars, handlerVars, tlsVars, labelVars, sniVars, detectVars, httpVars, limitVars, sweepVars, h2cVars, reuseVars, udpVars, qpackVars, peekVars>>
notHttp == <<now, proxyVars, poolVars, spliceVars, handlerVars, tlsVars, labelVars, sniVars, detectVars, allowVars, limitVars, sweepVars, h2cVars, reuseVars, udpVars, qpackVars, peekVars>>
notLimit == <<now, proxyVars, poolVars, spliceVars, handlerVars, tlsVars, labelVars, sniVars, detectVars, allowVars, httpVars, sweepVars, h2cVars, reuseVars, udpVars, qpackVars, peekVars>>
notSweep == <<proxyVars, poolVars, spliceVars, handlerVars, tlsVars, labelVars, sniVars, detectVars, allowVars, httpVars, limitVars, h2cVars, reuseVars, udpVars, qpackVars, peekVars>>
notH2c == <<now, proxyVars, poolVars, spliceVars, handlerVars, tlsVars, labelVars, sniVars, detectVars, allowVars, httpVars, limitVars, sweepVars, reuseVars, udpVars, qpackVars, peekVars>>
notReuse == <<now, proxyVars, poolVars, spliceVars, handlerVars, tlsVars, labelVars, sniVars, detectVars, allowVars, httpVars, limitVars, sweepVars, h2cVars, udpVars, qpackVars, peekVars>>
notUdp == <<proxyVars, poolVars, spliceVars, handlerVars, tlsVars, labelVars, sniVars, detectVars, allowVars, httpVars, limitVars, sweepVars, h2cVars, reuseVars, qpackVars, peekVars>>
notQpack == <<now, proxyVars, poolVars, spliceVars, handlerVars, tlsVars, labelVars, sniVars, detectVars, allowVars, httpVars, limitVars, sweepVars, h2cVars, reuseVars, udpVars, peekVars>>
notPeek == <<now, proxyVars, poolVars, spliceVars, handlerVars, tlsVars, labelVars, sniVars, detectVars, allowVars, httpVars, limitVars, sweepVars, h2cVars, reuseVars, udpVars, qpackVars>>

(***************************************************************************)
(* Bounds of the model.                                                    *)
(***************************************************************************)
MaxTime == 4          \* the clock stops here
MaxConns == 3         \* connections accepted in one run
MaxPermits == 2       \* largest max_connections tried
NumListeners == 2     \* TCP listeners
ShutdownTimeoutSecs == 2   \* config.shutdown_timeout, scaled down
PoolMaxTime == 2      \* the clock of the pool stops here
NumHosts == 2         \* backend hosts (pool keys)
MaxStreams == 3       \* backend streams that exist in one run
ConnectionTtl == 2    \* PoolConfig.connection_ttl, scaled down
PoolIdleTimeout == 1  \* PoolConfig.idle_timeout, scaled down
MaxPerHost == 2       \* PoolConfig.max_per_host, scaled down
MaxRequests == 1      \* PoolConfig.max_requests_per_connection, scaled down
SpliceMaxTime == 3    \* the clock of the splice stops here
MaxChunks == 1        \* chunks a peer sends in one direction
IdleTimeoutSecs == 2  \* config.timeouts.idle, scaled down
HandlerMaxTime == 3   \* the clock of the handler stops here
ClientHelloSecs == 1  \* config.timeouts.client_hello, scaled down
ConnectSecs == 1      \* config.timeouts.connect, scaled down
DetectionSecs == 2    \* detection_timeout of extract_http2_authority (5 s), scaled down
MaxHeaderReads == 2   \* reads after which extract_host has passed its 32 KiB limit
BufCapacity == 6      \* capacity of the BufReader (8 KiB), scaled down
MaxSegment == 4       \* most bytes one TCP segment of the client carries
MaxAppBytes == 3      \* most bytes the client sends after its ClientHello
LongBody == 7         \* length of the longer of the two ClientHello bodies
NumLabelTasks == 2    \* tasks that call get_or_insert concurrently
MaxLabelCalls == 3    \* calls of get_or_insert in one run
NumShards == 2        \* shards of the DashMap

Min(a, b) == IF a < b THEN a ELSE b
Max(a, b) == IF a > b THEN a ELSE b

(***************************************************************************)
(* run_proxy: admission and graceful shutdown                              *)
(***************************************************************************)
ConnIds == 1..MaxConns
Listeners == 1..NumListeners

shutdown_timeout == ShutdownTimeoutSecs

\* Semaphore::try_acquire_owned succeeds iff a permit is available.
try_acquire_mut(permits) == TRUE
try_acquire_owned(permits) == permits > 0

\* timeout(shutdown_timeout_duration, ...): the instant the drain gives up.
DrainDeadline_mut(start) == start + shutdown_timeout + 1
DrainDeadline(start) == start + shutdown_timeout

\* How a handler task can end: process_connection returned Ok or Err (both
\* absorbed by handle_connection), or the task panicked and was unwound.
Outcomes == {"ok", "err", "panic"}

\* JoinHandle::is_finished
is_finished(state) == state \in Outcomes

\* `Err(e) => { error!("Accept error: {}", e); }` returns from run_proxy.
AfterAcceptError_mut == "failed"
\* `Err(e) => { error!("Accept error: {}", e); }`: the loop goes on.
AfterAcceptError == "select"

\* The permit is dropped only by the `drop(permit)` statement.
PermitDropped_mut(outcome) == outcome # "panic"
\* The permit is owned by the task's future: dropped by `drop(permit)` or,
\* when the task unwinds, with the future.
PermitDropped(outcome) == TRUE

\* The drain does not await the handles.
AllHandlesFinished_mut == TRUE
\* `for handle in connection_handles { handle.await }` has completed.
AllHandlesFinished == \A t \in connection_handles : is_finished(taskState[t])

Outstanding == {t \in ConnIds : taskState[t] = "running"}

\* A connection has failed or an accept has returned an error.
AnyFailure ==
    \/ \E t \in ConnIds : taskState[t] \in {"err", "panic"}
    \/ lastAccept.result = "error"

ProxyInit ==
    /\ cfg_max_connections \in 1..MaxPermits
    /\ connection_semaphore = cfg_max_connections
    /\ mainPc = "select"
    /\ active_connections = 0
    /\ connection_handles = {}
    /\ taskState = [t \in ConnIds |-> "none"]
    /\ nextConn = 0
    /\ lastAccept = [listener |-> 0, result |-> "none", after_failure |-> FALSE]
    /\ shutdownKind = "none"
    /\ drainStart = -1
    /\ returnedAt = -1

\* accepts.next() yields Ok((socket, addr)) on listener l and a permit is free:
\* the handler task is spawned, its handle pushed, finished handles pruned.
AcceptSpawn(l) ==
    /\ mainPc = "select"
    /\ nextConn < MaxConns
    /\ try_acquire_owned(connection_semaphore)
    /\ LET t == nextConn + 1 IN
        /\ nextConn' = t
        /\ connection_semaphore' = connection_semaphore - 1
        /\ active_connections' = active_connections + 1
        /\ taskState' = [taskState EXCEPT ![t] = "running"]
        /\ connection_handles' =
              {h \in connection_handles \cup {t} : ~is_finished(taskState'[h])}
        /\ lastAccept' = [listener |-> l, result |-> "spawned",
                          after_failure |-> AnyFailure]
    /\ UNCHANGED <<now, mainPc, cfg_max_connections, shutdownKind, drainStart, returnedAt>>
    /\ UNCHANGED notProxy

\* accepts.next() yields Ok but no permit is available: the socket is dropped.
AcceptRefuse(l) ==
    /\ mainPc = "select"
    /\ nextConn < MaxConns
    /\ ~try_acquire_owned(connection_semaphore)
    /\ LET t == nextConn + 1 IN
        /\ nextConn' = t
        /\ taskState' = [taskState EXCEPT ![t] = "refused"]
        /\ lastAccept' = [listener |-> l, result |-> "refused",
                          after_failure |-> AnyFailure]
    /\ UNCHANGED <<now, mainPc, cfg_max_connections, connection_semaphore,
                   active_connections, connection_handles, shutdownKind,
                   drainStart, returnedAt>>
    /\ UNCHANGED notProxy

\* accepts.next() yields Err(e): logged, the loop goes on.
AcceptError(l) ==
    /\ mainPc = "select"
    /\ mainPc' = AfterAcceptError
    /\ lastAccept' = [listener |-> l, result |-> "error", after_failure |-> AnyFailure]
    /\ UNCHANGED <<now, cfg_max_connections, connection_semaphore,
                   active_connections, connection_handles, taskState, nextConn,
                   shutdownKind, drainStart, returnedAt>>
    /\ UNCHANGED notProxy

\* The spawned task ends.  handle_connection returns (having logged an Err of
\* process_connection), the counter is decremented and the permit dropped, in
\* one poll with no suspension point in between; or the task panics, and the
\* unwinding drops its future, the permit with it, skipping fetch_sub.
HandlerFinish(t, outcome) ==
    /\ taskState[t] = "running"
    /\ taskState' = [taskState EXCEPT ![t] = outcome]
    /\ active_connections' =
          IF outcome = "panic" THEN active_connections ELSE active_connections - 1
    /\ connection_semaphore' =
          IF PermitDropped(outcome) THEN connection_semaphore + 1 ELSE connection_semaphore
    /\ UNCHANGED <<now, mainPc, cfg_max_connections, connection_handles, nextConn,
                   lastAccept, shutdownKind, drainStart, returnedAt>>
    /\ UNCHANGED notProxy

\* select! takes shutdown_rx.recv() or signal::ctrl_c(): break, read the
\* counter, arm timeout(shutdown_timeout, await every handle).
ShutdownSignal(kind) ==
    /\ mainPc = "select"
    /\ mainPc' = "drain"
    /\ shutdownKind' = kind
    /\ drainStart' = now
    /\ UNCHANGED <<now, cfg_max_connections, connection_semaphore, active_connections,
                   connection_handles, taskState, nextConn, lastAccept, returnedAt>>
    /\ UNCHANGED notProxy

\* Every handle has been awaited before the deadline: Ok(_), then return.
DrainComplete ==
    /\ mainPc = "drain"
    /\ AllHandlesFinished
    /\ mainPc' = "returned"
    /\ returnedAt' = now
    /\ UNCHANGED <<now, cfg_max_connections, connection_semaphore, active_connections,
                   connection_handles, taskState, nextConn, lastAccept, shutdownKind,
                   drainStart>>
    /\ UNCHANGED notProxy

\* The timeout elapses with a handle still pending: Err(_), warn, then return.
DrainTimeout ==
    /\ mainPc = "drain"
    /\ ~AllHandlesFinished
    /\ now >= DrainDeadline(drainStart)
    /\ mainPc' = "returned"
    /\ returnedAt' = now
    /\ UNCHANGED <<now, cfg_max_connections, connection_semaphore, active_connections,
                   connection_handles, taskState, nextConn, lastAccept, shutdownKind,
                   drainStart>>
    /\ UNCHANGED notProxy

\* A second passes; the drain ends as soon as every handle has been awaited
\* and the armed drain timeout fires no later than its deadline.
ProxyTick ==
    /\ now < MaxTime
    /\ mainPc = "drain" => (~AllHandlesFinished /\ now < DrainDeadline(drainStart))
    /\ now' = now + 1
    /\ UNCHANGED proxyVars
    /\ UNCHANGED notProxy

ProxyNext ==
    \/ \E l \in Listeners : AcceptSpawn(l)
    \/ \E l \in Listeners : AcceptRefuse(l)
    \/ \E l \in Listeners : AcceptError(l)
    \/ \E t \in ConnIds, outcome \in Outcomes : HandlerFinish(t, outcome)
    \/ \E kind \in {"broadcast", "ctrl_c"} : ShutdownSignal(kind)
    \/ DrainComplete
    \/ DrainTimeout
    \/ ProxyTick

(***************************************************************************)
(* ConnectionPool                                                          *)
(***************************************************************************)
Hosts == 1..NumHosts
Streams == 1..MaxStreams
None == 0

\* PooledConnection::new / with_http_info: both stamps are the instant of the put.
PooledConnection(stream, http_version, keep_alive, t) ==
    [stream |-> stream, created_at |-> t, last_used |-> t,
     http_version |-> http_version, keep_alive |-> keep_alive, request_count |-> 0]

\* Option::None of a PooledConnection
NoConn == PooledConnection(None, "Http11", FALSE, 0)

\* created_at.elapsed() > ttl
is_expired(conn, ttl, t) == t - conn.created_at > ttl

\* an entry is never taken for idle
is_idle_mut(conn, idle_timeout, t) == FALSE
\* last_used.elapsed() > idle_timeout
is_idle(conn, idle_timeout, t) == t - conn.last_used > idle_timeout

is_valid_mut(conn, ttl, idle_timeout, t) == ~is_expired(conn, ttl, t)
is_valid(conn, ttl, idle_timeout, t) ==
    ~is_expired(conn, ttl, t) /\ ~is_idle(conn, idle_timeout, t)

can_keep_alive(conn, max_requests) ==
    conn.keep_alive /\ conn.request_count < max_requests

\* request_count += 1; last_used = Instant::now()
mark_used(conn, t) ==
    [conn EXCEPT !.request_count = conn.request_count + 1, !.last_used = t]

\* get reads the last entry with `pool.last()` and leaves it in the bucket.
GetScan_mut(bucket, cfg, t, acc) ==
    IF bucket = <<>> THEN [acc EXCEPT !.bucket = <<>>, !.conn = NoConn]
    ELSE [acc EXCEPT !.bucket = bucket, !.conn = bucket[Len(bucket)]]

\* The `while let Some(conn) = pool.pop()` loop of get: entries are taken from
\* the back; invalid ones and ones over the keep-alive limit are dropped.
\* Yields the bucket left, the entry found (or None) and what was dropped.
RECURSIVE GetScan(_, _, _, _)
GetScan(bucket, cfg, t, acc) ==
    IF bucket = <<>> THEN [acc EXCEPT !.bucket = <<>>, !.conn = NoConn]
    ELSE LET conn == bucket[Len(bucket)]
             rest == SubSeq(bucket, 1, Len(bucket) - 1)
         IN IF ~is_valid(conn, cfg.connection_ttl, cfg.idle_timeout, t)
            THEN GetScan(rest, cfg, t,
                         [acc EXCEPT !.evicted = Append(acc.evicted, conn.stream)])
            ELSE IF cfg.keep_alive_enabled
                    /\ ~can_keep_alive(conn, cfg.max_requests_per_connection)
            THEN GetScan(rest, cfg, t,
                         [acc EXCEPT !.evicted = Append(acc.evicted, conn.stream),
                                     !.rejected = acc.rejected + 1])
            ELSE [acc EXCEPT !.bucket = rest, !.conn = conn]

ScanStart == [bucket |-> <<>>, conn |-> NoConn, evicted |-> <<>>, rejected |-> 0]

SeqToSet(q) == {q[i] : i \in 1..Len(q)}

RECURSIVE SelectSeq2(_, _, _, _)
\* Vec::retain(|conn| conn.is_valid(ttl, idle_timeout))
SelectSeq2(bucket, ttl, idle_timeout, t) ==
    IF bucket = <<>> THEN <<>>
    ELSE LET h == Head(bucket)
             r == SelectSeq2(Tail(bucket), ttl, idle_timeout, t)
         IN IF is_valid(h, ttl, idle_timeout, t) THEN <<h>> \o r ELSE r

\* The configurations tried: the pool on or off, keep-alive on or off, and the
\* idle timeout shorter than the TTL (as in the defaults) or the other way round.
PoolConfigs ==
    {c \in [enabled : BOOLEAN,
            max_per_host : {MaxPerHost},
            connection_ttl : {ConnectionTtl, PoolIdleTimeout},
            idle_timeout : {ConnectionTtl, PoolIdleTimeout},
            keep_alive_enabled : BOOLEAN,
            max_requests_per_connection : {MaxRequests}] :
        /\ c.connection_ttl # c.idle_timeout
        /\ ~c.enabled => (c.keep_alive_enabled /\ c.connection_ttl = ConnectionTtl)
        /\ ~c.keep_alive_enabled => c.connection_ttl = ConnectionTtl}

\* The counters of PoolMetrics only ever grow and are never read back: the
\* model keeps, per get, the amounts that get added to them.
NoGet == [host |-> None, stream |-> None, age |-> 0, idle_for |-> 0,
          pool_hits |-> 0, pool_misses |-> 0, pool_evictions |-> 0,
          keep_alive_rejections |-> 0, keep_alive_reuses |-> 0]

NoMetrics == [pool_size |-> 0]

PoolInit ==
    /\ pool_config \in PoolConfigs
    /\ pools = [h \in Hosts |-> <<>>]
    /\ poolKeys = {}
    /\ held = Streams
    /\ closed = {}
    /\ pool_metrics = NoMetrics
    /\ lastGet = NoGet
    /\ lastPut = "none"

\* get(host) on a disabled pool, or for a host with no bucket: None, nothing
\* is recorded (the `?` on get_mut returns before the metrics).
GetAbsent(h) ==
    /\ ~pool_config.enabled \/ h \notin poolKeys
    /\ lastGet' = [NoGet EXCEPT !.host = h]
    /\ UNCHANGED <<now, pool_config, pools, poolKeys, held, closed, pool_metrics, lastPut>>
    /\ UNCHANGED notPool

\* The gauge is lowered for the entry returned only.
SizeAfterGet_mut(pool_size, evicted, hit) == pool_size - (IF hit THEN 1 ELSE 0)
\* metrics.pool_size.dec() once for each entry get evicts and once for the
\* entry it returns.
SizeAfterGet(pool_size, evicted, hit) == pool_size - evicted - (IF hit THEN 1 ELSE 0)

\* get(host) with a bucket: scan from the back under the bucket's lock.
Get(h) ==
    /\ pool_config.enabled
    /\ h \in poolKeys
    /\ LET r == GetScan(pools[h], pool_config, now, ScanStart)
           n == Len(r.evicted)
           hit == r.conn.stream # None
           used == mark_used(r.conn, now)
       IN /\ pools' = [pools EXCEPT ![h] = r.bucket]
          /\ closed' = closed \cup SeqToSet(r.evicted)
          /\ held' = IF hit THEN held \cup {r.conn.stream} ELSE held
          /\ pool_metrics' =
               [pool_metrics EXCEPT !.pool_size = SizeAfterGet(@, n, hit)]
          /\ lastGet' =
               [host |-> h,
                stream |-> r.conn.stream,
                age |-> IF hit THEN now - r.conn.created_at ELSE 0,
                idle_for |-> IF hit THEN now - r.conn.last_used ELSE 0,
                pool_hits |-> IF hit THEN 1 ELSE 0,
                pool_misses |-> IF hit THEN 0 ELSE 1,
                pool_evictions |-> n,
                keep_alive_rejections |-> r.rejected,
                keep_alive_reuses |-> IF hit /\ used.request_count > 1 THEN 1 ELSE 0]
    /\ UNCHANGED <<now, pool_config, poolKeys, lastPut>>
    /\ UNCHANGED notPool

\* `pool.len() > self.config.max_per_host`
BucketFull_mut(bucket, cfg) == Len(bucket) > cfg.max_per_host
\* `pool.len() >= self.config.max_per_host`
BucketFull(bucket, cfg) == Len(bucket) >= cfg.max_per_host

\* The body shared by put and put_with_http_info once the bucket entry is held:
\* entry(host).or_default(), the max_per_host check, the push and the gauges.
PutEntry(h, s, http_version, keep_alive) ==
    /\ poolKeys' = poolKeys \cup {h}
    /\ IF BucketFull(pools[h], pool_config)
       THEN /\ closed' = closed \cup {s}
            /\ lastPut' = "false"
            /\ UNCHANGED <<pools, pool_metrics>>
       ELSE /\ pools' = [pools EXCEPT
                           ![h] = Append(@, PooledConnection(s, http_version, keep_alive, now))]
            /\ pool_metrics' = [pool_metrics EXCEPT !.pool_size = @ + 1]
            /\ lastPut' = "true"
            /\ UNCHANGED closed
    /\ held' = held \ {s}
    /\ UNCHANGED <<now, pool_config, lastGet>>

\* put(host, stream)
Put(h, s) ==
    /\ s \in held
    /\ UNCHANGED notPool
    /\ IF ~pool_config.enabled
       THEN /\ held' = held \ {s}
            /\ closed' = closed \cup {s}
            /\ lastPut' = "false"
            /\ UNCHANGED <<now, pool_config, pools, poolKeys, pool_metrics, lastGet>>
       ELSE PutEntry(h, s, "Http11", TRUE)

\* put_with_http_info(host, stream, http_version, keep_alive)
PutWithHttpInfo(h, s, http_version, keep_alive) ==
    /\ s \in held
    /\ UNCHANGED notPool
    /\ IF ~pool_config.enabled \/ (pool_config.keep_alive_enabled /\ ~keep_alive)
       THEN /\ held' = held \ {s}
            /\ closed' = closed \cup {s}
            /\ lastPut' = "false"
            /\ UNCHANGED <<now, pool_config, pools, poolKeys, pool_metrics, lastGet>>
       ELSE PutEntry(h, s, http_version, keep_alive)

\* cleanup(): every bucket retains its valid entries; the totals are recorded.
Cleanup ==
    /\ LET ttl == pool_config.connection_ttl
           idle == pool_config.idle_timeout
           kept == [h \in Hosts |-> SelectSeq2(pools[h], ttl, idle, now)]
           gone == UNION {{c.stream : c \in SeqToSet(pools[h])} : h \in Hosts}
                     \ UNION {{c.stream : c \in SeqToSet(kept[h])} : h \in Hosts}
           total_evicted == Cardinality(gone)
       IN /\ total_evicted > 0
          /\ pools' = kept
          /\ closed' = closed \cup gone
          /\ pool_metrics' = [pool_metrics EXCEPT !.pool_size = @ - total_evicted]
    /\ UNCHANGED <<now, pool_config, poolKeys, held, lastGet, lastPut>>
    /\ UNCHANGED notPool

\* A second passes.
PoolTick ==
    /\ now < PoolMaxTime
    /\ now' = now + 1
    /\ UNCHANGED poolVars
    /\ UNCHANGED notPool

PoolNext ==
    \/ \E h \in Hosts : GetAbsent(h)
    \/ \E h \in Hosts : Get(h)
    \/ \E h \in Hosts, s \in Streams : Put(h, s)
    \/ \E h \in Hosts, s \in Streams, ka \in BOOLEAN :
         PutWithHttpInfo(h, s, "Http2", ka)
    \/ Cleanup
    \/ PoolTick

(***************************************************************************)
(* The bidirectional splice                                                *)
(*                                                                         *)
(* handle_https, handle_http2_cleartext and handle_ssh splice with         *)
(* copy_bidirectional_timeout; handle_http splices with tunnel_http, which *)
(* joins two copy_with_metrics (metrics given) or two tokio::io::copy.     *)
(* Direction "c2s" reads the client and writes the backend, "s2c" the      *)
(* reverse.                                                                *)
(***************************************************************************)
Dirs == {"c2s", "s2c"}
Other(d) == IF d = "c2s" THEN "s2c" ELSE "c2s"
Paths == {"tls", "http1", "h2c", "ssh"}

idle_timeout == IdleTimeoutSecs

\* The copy loop a handler ends in.
Splicer(path, metrics) ==
    IF path = "http1"
    THEN (IF metrics THEN "copy_with_metrics" ELSE "io_copy")
    ELSE "copy_bidirectional_timeout"

\* Whether each read of the loop is wrapped in timeout(idle_timeout, ..).
ReadHasTimeout(splicer) == splicer = "copy_bidirectional_timeout"

\* Whether the loop is followed by write.shutdown().
ShutsDownOnEof(splicer) == splicer = "copy_bidirectional_timeout"

\* tokio::try_join!: the first Err ends the join and drops the other future.
TryJoinErr_mut(pcs, d) == [pcs EXCEPT ![d] = "failed"]
TryJoinErr(pcs, d) ==
    [x \in Dirs |-> IF x = d THEN "failed"
                    ELSE IF pcs[x] = "done" THEN "done" ELSE "cancelled"]

\* What the join has returned once direction states are pcs.
JoinResult(pcs) ==
    IF \E d \in Dirs : pcs[d] = "failed" /\ pcs[Other(d)] \in {"done", "cancelled", "failed"}
    THEN "err"
    ELSE IF \A d \in Dirs : pcs[d] = "done" THEN "ok" ELSE "running"

SpliceInit ==
    /\ splicePath \in Paths
    /\ spliceMetrics \in BOOLEAN
    /\ dirPc = [d \in Dirs |-> "read"]
    /\ peerLeft = [d \in Dirs |-> MaxChunks]
    /\ inflight = [d \in Dirs |-> 0]
    /\ peerFin = [d \in Dirs |-> FALSE]
    /\ readStart = [d \in Dirs |-> 0]
    /\ carried = [d \in Dirs |-> 0]
    /\ writeShut = [d \in Dirs |-> FALSE]
    /\ spliceResult = "running"

\* The peer on the reading side of direction d sends a chunk.
PeerSend(d) ==
    /\ peerLeft[d] > 0 /\ ~peerFin[d]
    /\ peerLeft' = [peerLeft EXCEPT ![d] = @ - 1]
    /\ inflight' = [inflight EXCEPT ![d] = @ + 1]
    /\ UNCHANGED <<now, splicePath, spliceMetrics, dirPc, peerFin, readStart, carried,
                   writeShut, spliceResult>>
    /\ UNCHANGED notSplice

\* The peer on the reading side of direction d closes its write side (FIN).
PeerClose(d) ==
    /\ ~peerFin[d]
    /\ peerFin' = [peerFin EXCEPT ![d] = TRUE]
    /\ UNCHANGED <<now, splicePath, spliceMetrics, dirPc, peerLeft, inflight, readStart,
                   carried, writeShut, spliceResult>>
    /\ UNCHANGED notSplice

\* read(&mut buf) returns n > 0: k of the chunks received.
DirRead(d) ==
    /\ spliceResult = "running" /\ dirPc[d] = "read"
    /\ \E k \in 1..inflight[d] :
        /\ inflight' = [inflight EXCEPT ![d] = @ - k]
        /\ carried' = [carried EXCEPT ![d] = k]
    /\ dirPc' = [dirPc EXCEPT ![d] = "write"]
    /\ UNCHANGED <<now, splicePath, spliceMetrics, peerLeft, peerFin, readStart,
                   writeShut, spliceResult>>
    /\ UNCHANGED notSplice

\* write_all(&buf[..n]) completes, the counter is incremented, the next read
\* is issued (under a fresh timeout where the loop has one).
DirWrite(d) ==
    /\ spliceResult = "running" /\ dirPc[d] = "write"
    /\ carried' = [carried EXCEPT ![d] = 0]
    /\ dirPc' = [dirPc EXCEPT ![d] = "read"]
    /\ readStart' = [readStart EXCEPT ![d] = now]
    /\ UNCHANGED <<now, splicePath, spliceMetrics, peerLeft, inflight, peerFin,
                   writeShut, spliceResult>>
    /\ UNCHANGED notSplice

\* read returns 0 (EOF): break.  copy_bidirectional_timeout goes on to
\* shutdown(); copy_with_metrics and tokio::io::copy return Ok(total).
DirEof(d) ==
    /\ spliceResult = "running" /\ dirPc[d] = "read"
    /\ inflight[d] = 0 /\ peerFin[d]
    /\ LET pcs == [dirPc EXCEPT ![d] =
                     IF ShutsDownOnEof(Splicer(splicePath, spliceMetrics))
                     THEN "shutdown" ELSE "done"]
       IN /\ dirPc' = pcs
          /\ spliceResult' = JoinResult(pcs)
    /\ UNCHANGED <<now, splicePath, spliceMetrics, peerLeft, inflight, peerFin, readStart,
                   carried, writeShut>>
    /\ UNCHANGED notSplice

\* server_write.shutdown() / client_write.shutdown() completes: Ok(()).
DirShutdown(d) ==
    /\ spliceResult = "running" /\ dirPc[d] = "shutdown"
    /\ writeShut' = [writeShut EXCEPT ![d] = TRUE]
    /\ LET pcs == [dirPc EXCEPT ![d] = "done"]
       IN /\ dirPc' = pcs
          /\ spliceResult' = JoinResult(pcs)
    /\ UNCHANGED <<now, splicePath, spliceMetrics, peerLeft, inflight, peerFin, readStart,
                   carried>>
    /\ UNCHANGED notSplice

\* The read, the write or the shutdown of direction d returns an I/O error.
DirIoError(d) ==
    /\ spliceResult = "running" /\ dirPc[d] \in {"read", "write", "shutdown"}
    /\ LET pcs == TryJoinErr(dirPc, d)
       IN /\ dirPc' = pcs
          /\ spliceResult' = JoinResult(pcs)
    /\ UNCHANGED <<now, splicePath, spliceMetrics, peerLeft, inflight, peerFin, readStart,
                   carried, writeShut>>
    /\ UNCHANGED notSplice

\* timeout(idle_timeout, read) elapses with nothing to read: Err(Elapsed).
DirIdleTimeout(d) ==
    /\ spliceResult = "running" /\ dirPc[d] = "read"
    /\ ReadHasTimeout(Splicer(splicePath, spliceMetrics))
    /\ inflight[d] = 0 /\ ~peerFin[d]
    /\ now >= readStart[d] + idle_timeout
    /\ LET pcs == TryJoinErr(dirPc, d)
       IN /\ dirPc' = pcs
          /\ spliceResult' = JoinResult(pcs)
    /\ UNCHANGED <<now, splicePath, spliceMetrics, peerLeft, inflight, peerFin, readStart,
                   carried, writeShut>>
    /\ UNCHANGED notSplice

\* A second passes; a read under a timeout does not outlast its deadline.
SpliceTick ==
    /\ now < SpliceMaxTime
    /\ \A d \in Dirs :
         (/\ spliceResult = "running" /\ dirPc[d] = "read"
          /\ ReadHasTimeout(Splicer(splicePath, spliceMetrics)))
         => now < readStart[d] + idle_timeout
    /\ now' = now + 1
    /\ UNCHANGED spliceVars
    /\ UNCHANGED notSplice

SpliceNext ==
    \/ \E d \in Dirs : PeerSend(d)
    \/ \E d \in Dirs : PeerClose(d)
    \/ \E d \in Dirs : DirRead(d)
    \/ \E d \in Dirs : DirWrite(d)
    \/ \E d \in Dirs : DirEof(d)
    \/ \E d \in Dirs : DirShutdown(d)
    \/ \E d \in Dirs : DirIoError(d)
    \/ \E d \in Dirs : DirIdleTimeout(d)
    \/ SpliceTick

(***************************************************************************)
(* Hostnames and the allowlist                                             *)
(*                                                                         *)
(* A string is a sequence of one-character strings.                        *)
(***************************************************************************)
Lower(c) == CASE c = "A" -> "a" [] c = "B" -> "b" [] c = "X" -> "x" [] OTHER -> c

\* str::to_lowercase
to_lowercase(str) == [i \in 1..Len(str) |-> Lower(str[i])]

\* str::ends_with
ends_with(str, suffix) ==
    /\ Len(suffix) <= Len(str)
    /\ SubSeq(str, Len(str) - Len(suffix) + 1, Len(str)) = suffix

\* str::starts_with
starts_with(str, prefix) ==
    /\ Len(prefix) <= Len(str)
    /\ SubSeq(str, 1, Len(prefix)) = prefix

\* str::strip_prefix(..).unwrap()
strip_prefix(str, prefix) == SubSeq(str, Len(prefix) + 1, Len(str))

\* matches_allowlist_pattern without `|| hostname == domain`
matches_allowlist_pattern_mut(hostname, pattern) ==
    IF pattern = hostname THEN TRUE
    ELSE IF starts_with(pattern, <<"*", ".">>)
    THEN ends_with(hostname, <<".">> \o strip_prefix(pattern, <<"*", ".">>))
    ELSE IF starts_with(pattern, <<"*">>)
    THEN ends_with(hostname, strip_prefix(pattern, <<"*">>))
    ELSE FALSE

\* sniproxy_config::matches_allowlist_pattern
matches_allowlist_pattern(hostname, pattern) ==
    IF pattern = hostname THEN TRUE
    ELSE IF starts_with(pattern, <<"*", ".">>)
    THEN LET domain == strip_prefix(pattern, <<"*", ".">>)
         IN ends_with(hostname, <<".">> \o domain) \/ hostname = domain
    ELSE IF starts_with(pattern, <<"*">>)
    THEN ends_with(hostname, strip_prefix(pattern, <<"*">>))
    ELSE FALSE

\* ConnectionHandler::is_host_allowed
is_host_allowed(host, allowlist) ==
    IF \E i \in 1..Len(allowlist) : allowlist[i] = <<"*">> THEN TRUE
    ELSE LET host_lower == to_lowercase(host)
         IN \E i \in 1..Len(allowlist) :
               matches_allowlist_pattern(host_lower, to_lowercase(allowlist[i]))

\* str::parse::<u16>().is_ok(): an optional '+', then digits, at most 65535
RECURSIVE DecimalValue(_)
DecimalValue(str) ==
    IF str = <<>> THEN 0
    ELSE LET d == str[Len(str)]
             v == CASE d = "0" -> 0 [] d = "1" -> 1 [] d = "2" -> 2 [] d = "3" -> 3
                    [] d = "4" -> 4 [] d = "5" -> 5 [] d = "6" -> 6 [] d = "7" -> 7
                    [] d = "8" -> 8 [] d = "9" -> 9 [] OTHER -> 65536
         IN Min(65536, 10 * DecimalValue(SubSeq(str, 1, Len(str) - 1)) + v)

parse_u16_ok(str) ==
    LET digits == IF str # <<>> /\ str[1] = "+" THEN Tail(str) ELSE str
    IN digits # <<>> /\ DecimalValue(digits) <= 65535

\* handle_http: `host.rfind(':')` and the parse of what follows; the hostname
\* that tunnel_http is given.
HostnameOf(host) ==
    LET colons == {i \in 1..Len(host) : host[i] = ":"}
    IN IF colons = {} THEN host
       ELSE LET colon_pos == CHOOSE i \in colons : \A j \in colons : j <= i
            IN IF parse_u16_ok(SubSeq(host, colon_pos + 1, Len(host)))
               THEN SubSeq(host, 1, colon_pos - 1)
               ELSE host

\* `if let Some(ref allowlist) = self.config.allowlist && !self.is_host_allowed(..)`
\* does not reject.
PassesAllowlist_mut(host, has_allowlist, allowlist) == TRUE
PassesAllowlist(host, has_allowlist, allowlist) ==
    ~has_allowlist \/ is_host_allowed(host, allowlist)

(***************************************************************************)
(* One connection handler: peek, classify, extract, dial, forward, splice  *)
(***************************************************************************)
client_hello == ClientHelloSecs
connect == ConnectSecs
detection_timeout == DetectionSecs

HostValues ==
    {<<"a", ".", "b">>, <<"b">>, <<"A", ".", "B">>, <<"x", "b">>, <<"a", ".", "b", ":", "8">>}

Allowlists ==
    {<<>>, <<<<"*", ".", "b">>>>, <<<<"*", "b">>, <<"X">>>>, <<<<"a", ".", "b">>, <<"*">>>>}

\* The timeout the awaited operation is wrapped in, -1 when it has none:
\* peek_bytes and the two read_exact of handle_https use client_hello, the two
\* read_exact of extract_http2_authority use detection_timeout, connect of
\* handle_https and connect_to_server uses connect; the reads of extract_host,
\* the read_exact of the preface, lookup_host and TcpStream::connect of
\* tunnel_http are awaited bare.
StageTimeout(pc) ==
    CASE pc \in {"peek", "tls_header", "tls_body"} -> client_hello
      [] pc \in {"h2_frame_header", "h2_payload"} -> detection_timeout
      [] pc = "connect" -> connect
      [] OTHER -> -1

Awaiting == {"peek", "tls_header", "tls_body", "http_read", "h2_preface",
             "h2_frame_header", "h2_payload", "lookup", "connect", "http_connect",
             "write_initial", "splice"}

NoConnectionMetrics == [connections_total |-> "none", errors_total |-> 0]

\* handle_connection once process_connection has returned `result`:
\* connections_total is labelled by result.is_ok(), and errors_total
\* {"connection"} is incremented in the Err arm only.
RecordOutcome(is_ok) ==
    [connections_total |-> IF is_ok THEN "success" ELSE "failure",
     errors_total |-> IF is_ok THEN 0 ELSE 1]

HandlerInit ==
    /\ hProto \in {"tls", "http1", "h2c", "ssh", "unknown"}
    /\ hHost \in HostValues
    /\ hAllowlist \in Allowlists
    /\ hHasAllowlist = (hAllowlist # <<>>)
    /\ hHasPool \in BOOLEAN
    /\ hPc = "peek"
    /\ hStageStart = 0
    /\ hDialStart = -1
    /\ hReads = 0
    /\ hBackend = <<>>
    /\ hMetrics = NoConnectionMetrics

\* The handler moves on to await `pc`; when process_connection has returned,
\* handle_connection records the outcome.
Goto(pc) ==
    /\ hPc' = pc
    /\ hStageStart' = now
    /\ hMetrics' = IF pc \in {"done_ok", "done_err"}
                   THEN RecordOutcome(pc = "done_ok") ELSE hMetrics

HUnchanged == UNCHANGED <<now, hProto, hHost, hAllowlist, hHasAllowlist, hHasPool>>

\* connect_to_server: the pool, when there is one, is asked first (nothing
\* ever parks a stream, so it misses); then lookup_host is awaited.
ConnectToServer ==
    /\ hBackend' = IF hHasPool THEN Append(hBackend, "pool_get") ELSE hBackend
    /\ hDialStart' = now
    /\ Goto("lookup")

\* peek returns the first bytes; detect_protocol classifies; dispatch.
PeekDone ==
    /\ hPc = "peek"
    /\ CASE hProto = "tls" -> Goto("tls_header") /\ UNCHANGED <<hDialStart, hBackend>>
         [] hProto = "http1" -> Goto("http_read") /\ UNCHANGED <<hDialStart, hBackend>>
         [] hProto = "h2c" -> Goto("h2_preface") /\ UNCHANGED <<hDialStart, hBackend>>
         [] hProto = "ssh" -> ConnectToServer
         [] OTHER -> Goto("done_err") /\ UNCHANGED <<hDialStart, hBackend>>
    /\ UNCHANGED hReads
    /\ HUnchanged
    /\ UNCHANGED notHandler

\* handle_ssh finds neither an original destination nor a route: Ok(()).
SshNoRoute ==
    /\ hPc = "peek" /\ hProto = "ssh"
    /\ Goto("done_ok")
    /\ UNCHANGED <<hDialStart, hReads, hBackend>>
    /\ HUnchanged
    /\ UNCHANGED notHandler

\* read_exact of the 5-byte TLS header completes; the length is valid.
TlsHeaderRead ==
    /\ hPc = "tls_header"
    /\ Goto("tls_body")
    /\ UNCHANGED <<hDialStart, hReads, hBackend>>
    /\ HUnchanged
    /\ UNCHANGED notHandler

\* read_exact of the record body completes; extract_sni yields hHost; the
\* allowlist is checked; lookup_host is issued.
TlsBodyRead ==
    /\ hPc = "tls_body"
    /\ IF PassesAllowlist(hHost, hHasAllowlist, hAllowlist)
       THEN /\ Goto("lookup")
            /\ hDialStart' = now
       ELSE /\ Goto("done_err")
            /\ UNCHANGED hDialStart
    /\ UNCHANGED <<hReads, hBackend>>
    /\ HUnchanged
    /\ UNCHANGED notHandler

\* The record is refused: first byte, length out of [4, 16384], or extract_sni
\* fails.
TlsInvalid ==
    /\ hPc \in {"tls_header", "tls_body"}
    /\ Goto("done_err")
    /\ UNCHANGED <<hDialStart, hReads, hBackend>>
    /\ HUnchanged
    /\ UNCHANGED notHandler

\* extract_host: a read that does not complete the header block.
HttpReadMore ==
    /\ hPc = "http_read"
    /\ hReads' = hReads + 1
    /\ IF hReads' >= MaxHeaderReads
       THEN Goto("done_err")
       ELSE Goto("http_read")
    /\ UNCHANGED <<hDialStart, hBackend>>
    /\ HUnchanged
    /\ UNCHANGED notHandler

\* extract_host: the read completes the header block and a Host line is
\* there; the allowlist is checked; tunnel_http issues TcpStream::connect.
HttpReadHost ==
    /\ hPc = "http_read"
    /\ hReads' = hReads + 1
    /\ IF PassesAllowlist(hHost, hHasAllowlist, hAllowlist)
       THEN /\ Goto("http_connect")
            /\ hDialStart' = now
       ELSE /\ Goto("done_ok")
            /\ UNCHANGED hDialStart
    /\ UNCHANGED hBackend
    /\ HUnchanged
    /\ UNCHANGED notHandler

\* extract_host: NoHostHeader (Ok(())) or a read of 0 bytes (InvalidRequest).
HttpNoHost(ok) ==
    /\ hPc = "http_read"
    /\ Goto(IF ok THEN "done_ok" ELSE "done_err")
    /\ UNCHANGED <<hDialStart, hReads, hBackend>>
    /\ HUnchanged
    /\ UNCHANGED notHandler

\* TcpStream::connect("host:port") of tunnel_http completes: resolved, connected.
HttpConnectDone ==
    /\ hPc = "http_connect"
    /\ hBackend' = hBackend \o <<"dns", "connect">>
    /\ Goto("write_initial")
    /\ UNCHANGED <<hDialStart, hReads>>
    /\ HUnchanged
    /\ UNCHANGED notHandler

\* read_exact of the 24-byte preface completes.
H2PrefaceRead ==
    /\ hPc = "h2_preface"
    /\ Goto("h2_frame_header")
    /\ UNCHANGED <<hDialStart, hReads, hBackend>>
    /\ HUnchanged
    /\ UNCHANGED notHandler

\* read_exact of the 9-byte frame header completes: a HEADERS frame of a valid
\* length.
H2FrameHeaderRead ==
    /\ hPc = "h2_frame_header"
    /\ Goto("h2_payload")
    /\ UNCHANGED <<hDialStart, hReads, hBackend>>
    /\ HUnchanged
    /\ UNCHANGED notHandler

\* read_exact of the payload completes; :authority is found; the allowlist is
\* checked; connect_to_server.
H2PayloadRead ==
    /\ hPc = "h2_payload"
    /\ IF PassesAllowlist(hHost, hHasAllowlist, hAllowlist)
       THEN ConnectToServer
       ELSE /\ Goto("done_ok")
            /\ UNCHANGED <<hDialStart, hBackend>>
    /\ UNCHANGED hReads
    /\ HUnchanged
    /\ UNCHANGED notHandler

\* extract_http2_authority fails (frame type, length, no authority, timeout):
\* handle_http2_cleartext returns Ok(()).
H2Invalid ==
    /\ hPc \in {"h2_frame_header", "h2_payload"}
    /\ Goto("done_ok")
    /\ UNCHANGED <<hDialStart, hReads, hBackend>>
    /\ HUnchanged
    /\ UNCHANGED notHandler

\* lookup_host returns an address; connect is issued under its timeout.
LookupDone ==
    /\ hPc = "lookup"
    /\ hBackend' = Append(hBackend, "dns")
    /\ Goto("connect")
    /\ UNCHANGED <<hDialStart, hReads>>
    /\ HUnchanged
    /\ UNCHANGED notHandler

\* TcpStream::connect(addr) completes.
ConnectDone ==
    /\ hPc = "connect"
    /\ hBackend' = Append(hBackend, "connect")
    /\ IF hProto = "ssh" THEN Goto("splice") ELSE Goto("write_initial")
    /\ UNCHANGED <<hDialStart, hReads>>
    /\ HUnchanged
    /\ UNCHANGED notHandler

\* write_all of the captured bytes (record; header block; preface and frame).
WriteInitial ==
    /\ hPc = "write_initial"
    /\ hBackend' = Append(hBackend, "write")
    /\ Goto("splice")
    /\ UNCHANGED <<hDialStart, hReads>>
    /\ HUnchanged
    /\ UNCHANGED notHandler

\* The splice returns.
SpliceReturns(ok) ==
    /\ hPc = "splice"
    /\ Goto(IF ok THEN "done_ok" ELSE "done_err")
    /\ UNCHANGED <<hDialStart, hReads, hBackend>>
    /\ HUnchanged
    /\ UNCHANGED notHandler

\* The awaited operation returns an I/O error (reset, refused, unresolvable);
\* the errors of extract_http2_authority are H2Invalid.
StageIoError ==
    /\ hPc \in Awaiting \ {"h2_frame_header", "h2_payload"}
    /\ Goto("done_err")
    /\ UNCHANGED <<hDialStart, hReads, hBackend>>
    /\ HUnchanged
    /\ UNCHANGED notHandler

\* The timeout around the awaited operation elapses.
StageElapsed ==
    /\ hPc \in Awaiting
    /\ StageTimeout(hPc) >= 0
    /\ now >= hStageStart + StageTimeout(hPc)
    /\ IF hPc \in {"h2_frame_header", "h2_payload"} THEN Goto("done_ok") ELSE Goto("done_err")
    /\ UNCHANGED <<hDialStart, hReads, hBackend>>
    /\ HUnchanged
    /\ UNCHANGED notHandler

\* A second passes; an operation under a timeout does not outlast its deadline.
HandlerTick ==
    /\ now < HandlerMaxTime
    /\ (hPc \in Awaiting /\ StageTimeout(hPc) >= 0) => now < hStageStart + StageTimeout(hPc)
    /\ now' = now + 1
    /\ UNCHANGED handlerVars
    /\ UNCHANGED notHandler

HandlerNext ==
    \/ PeekDone
    \/ SshNoRoute
    \/ TlsHeaderRead
    \/ TlsBodyRead
    \/ TlsInvalid
    \/ HttpReadMore
    \/ HttpReadHost
    \/ \E ok \in BOOLEAN : HttpNoHost(ok)
    \/ HttpConnectDone
    \/ H2PrefaceRead
    \/ H2FrameHeaderRead
    \/ H2PayloadRead
    \/ H2Invalid
    \/ LookupDone
    \/ ConnectDone
    \/ WriteInitial
    \/ \E ok \in BOOLEAN : SpliceReturns(ok)
    \/ StageIoError
    \/ StageElapsed
    \/ HandlerTick

(***************************************************************************)
(* The bytes of one TLS connection, client to backend                      *)
(***************************************************************************)
MIN_TLS_HEADER_SIZE == 5
MAX_TLS_HEADER_SIZE == 16384
COPY_BUFFER_SIZE == 32768
TLS_HANDSHAKE == 22

Take(seq, n) == SubSeq(seq, 1, Min(n, Len(seq)))
Drop(seq, n) == SubSeq(seq, Min(n, Len(seq)) + 1, Len(seq))

IsPrefix(p, q) == Len(p) <= Len(q) /\ SubSeq(q, 1, Len(p)) = p

\* A ClientHello record with a body of n bytes, and k bytes that follow it.
ClientHelloRecord(n) ==
    <<TLS_HANDSHAKE, 3, 1, n \div 256, n % 256>> \o [i \in 1..n |-> IF i = 1 THEN 1 ELSE 0]
AppBytes(k) == [i \in 1..k |-> 200 + i]

ClientStreams ==
    {ClientHelloRecord(n) \o AppBytes(k) : n \in {4, LongBody}, k \in 0..MaxAppBytes}

\* `((record[3] as usize) << 8) | (record[4] as usize)`, 0-based indices.
record_length(rec) == rec[4] * 256 + rec[5]

\* The length read_exact has to bring `record` to.
Target(pc, rec) ==
    IF pc = "header" THEN MIN_TLS_HEADER_SIZE ELSE MIN_TLS_HEADER_SIZE + record_length(rec)

\* BufReader::into_inner hands the socket back; what the buffer held is gone.
into_inner(buf, sock) == sock

TlsInit ==
    /\ tStream \in ClientStreams
    /\ tSent = 0
    /\ tFin = FALSE
    /\ tSock = <<>>
    /\ tBuf = <<>>
    /\ record = <<>>
    /\ tPc = "peek"
    /\ tBackend = <<>>

\* One segment of the client arrives.
ClientSegment(n) ==
    /\ ~tFin
    /\ tSent + n <= Len(tStream)
    /\ tSock' = tSock \o SubSeq(tStream, tSent + 1, tSent + n)
    /\ tSent' = tSent + n
    /\ UNCHANGED <<tStream, tFin, tBuf, record, tPc, tBackend>>
    /\ UNCHANGED notTls

\* The client's FIN arrives: it closes, having sent all or only a part.
ClientFin ==
    /\ ~tFin
    /\ tFin' = TRUE
    /\ UNCHANGED <<tStream, tSent, tSock, tBuf, record, tPc, tBackend>>
    /\ UNCHANGED notTls

\* peek_bytes returns without consuming; detect_protocol sees 0x16.
TlsPeek ==
    /\ tPc = "peek"
    /\ tSock # <<>>
    /\ tPc' = IF tSock[1] = TLS_HANDSHAKE THEN "header" ELSE "done_err"
    /\ UNCHANGED <<tStream, tSent, tFin, tSock, tBuf, record, tBackend>>
    /\ UNCHANGED notTls

\* Where handle_https goes when read_exact has filled `rec`.
AfterRead(pc, rec) ==
    IF Len(rec) < Target(pc, rec) THEN pc
    ELSE IF pc = "header"
    THEN IF rec[1] # TLS_HANDSHAKE THEN "done_err"
         ELSE IF record_length(rec) < 4 \/ record_length(rec) > MAX_TLS_HEADER_SIZE
         THEN "done_err"
         ELSE "body"
    ELSE "dial"

\* One read of read_exact through the BufReader: with nothing buffered and at
\* least a buffer's worth wanted the read goes to the socket; otherwise the
\* buffer is refilled from the socket when empty and the read is served from it.
ReaderRead ==
    /\ tPc \in {"header", "body"}
    /\ LET need == Target(tPc, record) - Len(record)
       IN IF tBuf = <<>> /\ need >= BufCapacity
          THEN /\ tSock # <<>>
               /\ record' = record \o Take(tSock, need)
               /\ tSock' = Drop(tSock, need)
               /\ tBuf' = <<>>
          ELSE /\ tBuf # <<>> \/ tSock # <<>>
               /\ LET filled == IF tBuf = <<>> THEN Take(tSock, BufCapacity) ELSE tBuf
                  IN /\ record' = record \o Take(filled, need)
                     /\ tBuf' = Drop(filled, need)
               /\ tSock' = IF tBuf = <<>> THEN Drop(tSock, BufCapacity) ELSE tSock
    /\ tPc' = AfterRead(tPc, record')
    /\ UNCHANGED <<tStream, tSent, tFin, tBackend>>
    /\ UNCHANGED notTls

\* read_exact meets the end of the stream: UnexpectedEof.
ReaderEof ==
    /\ tPc \in {"header", "body"}
    /\ tBuf = <<>> /\ tSock = <<>> /\ tFin
    /\ tPc' = "done_err"
    /\ UNCHANGED <<tStream, tSent, tFin, tSock, tBuf, record, tBackend>>
    /\ UNCHANGED notTls

\* extract_sni, the allowlist, lookup_host and connect succeed.
TlsDial ==
    /\ tPc = "dial"
    /\ tPc' = "write"
    /\ UNCHANGED <<tStream, tSent, tFin, tSock, tBuf, record, tBackend>>
    /\ UNCHANGED notTls

\* extract_sni fails, the host is not admitted, or the dial fails.
TlsDialError ==
    /\ tPc = "dial"
    /\ tPc' = "done_err"
    /\ UNCHANGED <<tStream, tSent, tFin, tSock, tBuf, record, tBackend>>
    /\ UNCHANGED notTls

\* server.write_all(&record); reader.into_inner(); the splice begins.
WriteRecord ==
    /\ tPc = "write"
    /\ tBackend' = tBackend \o record
    /\ tSock' = into_inner(tBuf, tSock)
    /\ tBuf' = <<>>
    /\ tPc' = "splice"
    /\ UNCHANGED <<tStream, tSent, tFin, record>>
    /\ UNCHANGED notTls

\* client_to_server: read into the 32 KiB buffer, write_all to the backend.
SpliceCopy ==
    /\ tPc = "splice"
    /\ tSock # <<>>
    /\ tBackend' = tBackend \o Take(tSock, COPY_BUFFER_SIZE)
    /\ tSock' = Drop(tSock, COPY_BUFFER_SIZE)
    /\ UNCHANGED <<tStream, tSent, tFin, tBuf, record, tPc>>
    /\ UNCHANGED notTls

\* client_to_server: read returns 0, the backend's write half is shut down.
SpliceEof ==
    /\ tPc = "splice"
    /\ tSock = <<>> /\ tFin
    /\ tPc' = "done_ok"
    /\ UNCHANGED <<tStream, tSent, tFin, tSock, tBuf, record, tBackend>>
    /\ UNCHANGED notTls

TlsNext ==
    \/ \E n \in 1..MaxSegment : ClientSegment(n)
    \/ ClientFin
    \/ TlsPeek
    \/ ReaderRead
    \/ ReaderEof
    \/ TlsDial
    \/ TlsDialError
    \/ WriteRecord
    \/ SpliceCopy
    \/ SpliceEof

(***************************************************************************)
(* MetricLabelCache                                                        *)
(***************************************************************************)
LabelTasks == 1..NumLabelTasks
LabelHosts == {"a", "b"}
LabelProtocols == {"tls", "http2"}
LabelKeys == LabelHosts \X LabelProtocols

\* An Arc<str>: the allocation (numbered per key in order of construction)
\* and the string it holds.
NoArc == [serial |-> 0, label |-> <<>>]

\* format!("{}-{}", host, protocol)
FormatLabel(host, protocol) == <<host, "-", protocol>>

\* The shard of the map a key hashes to.
Shard(key) == IF key[1] = "a" THEN 1 ELSE NumShards

\* The map is probed without taking the shard's lock.
ShardFree_mut(holder) == TRUE
\* DashMap::entry takes the write lock of the key's shard.
ShardFree(holder) == holder = 0

LabelInit ==
    /\ cache = [k \in LabelKeys |-> NoArc]
    /\ shardLock = [i \in 1..NumShards |-> 0]
    /\ lcPc = [t \in LabelTasks |-> "idle"]
    /\ lcKey = [t \in LabelTasks |-> <<"a", "tls">>]
    /\ lcVacant = [t \in LabelTasks |-> FALSE]
    /\ lcConstructed = [k \in LabelKeys |-> 0]
    /\ lcReturned = [k \in LabelKeys |-> {}]
    /\ lcCalls = 0

\* A task calls get_or_insert(host, protocol): the key is built.
LabelCall(t, host, protocol) ==
    /\ lcPc[t] = "idle"
    /\ lcCalls < MaxLabelCalls
    /\ lcCalls' = lcCalls + 1
    /\ lcKey' = [lcKey EXCEPT ![t] = <<host, protocol>>]
    /\ lcPc' = [lcPc EXCEPT ![t] = "entry"]
    /\ UNCHANGED <<cache, shardLock, lcVacant, lcConstructed, lcReturned>>
    /\ UNCHANGED notLabels

\* self.cache.entry(key): the shard is locked and the key looked up.
LabelEntry(t) ==
    /\ lcPc[t] = "entry"
    /\ ShardFree(shardLock[Shard(lcKey[t])])
    /\ shardLock' = [shardLock EXCEPT ![Shard(lcKey[t])] = t]
    /\ lcVacant' = [lcVacant EXCEPT ![t] = (cache[lcKey[t]] = NoArc)]
    /\ lcPc' = [lcPc EXCEPT ![t] = "locked"]
    /\ UNCHANGED <<cache, lcKey, lcConstructed, lcReturned, lcCalls>>
    /\ UNCHANGED notLabels

\* .or_insert_with(|| Arc::from(format!(..))).clone(): a vacant entry gets a
\* newly constructed label; the Arc in the entry is cloned and returned, and
\* the shard is unlocked.
LabelOrInsertWith(t) ==
    /\ lcPc[t] = "locked"
    /\ LET key == lcKey[t]
           made == [serial |-> lcConstructed[key] + 1,
                    label |-> FormatLabel(key[1], key[2])]
       IN /\ cache' = IF lcVacant[t] THEN [cache EXCEPT ![key] = made] ELSE cache
          /\ lcConstructed' =
                IF lcVacant[t] THEN [lcConstructed EXCEPT ![key] = @ + 1] ELSE lcConstructed
          /\ lcReturned' = [lcReturned EXCEPT ![key] = @ \cup {cache'[key]}]
          /\ shardLock' = [shardLock EXCEPT ![Shard(key)] = IF @ = t THEN 0 ELSE @]
    /\ lcPc' = [lcPc EXCEPT ![t] = "idle"]
    /\ UNCHANGED <<lcKey, lcVacant, lcCalls>>
    /\ UNCHANGED notLabels

LabelNext ==
    \/ \E t \in LabelTasks, host \in LabelHosts, protocol \in LabelProtocols :
          LabelCall(t, host, protocol)
    \/ \E t \in LabelTasks : LabelEntry(t)
    \/ \E t \in LabelTasks : LabelOrInsertWith(t)

(***************************************************************************)
(* The ClientHello parsers: extract_sni and extract_alpn                   *)
(*                                                                         *)
(* A byte slice is a sequence of numbers 0..255, indexed from 0 as in the  *)
(* source.  Every result carries `hi`, the largest index the parser read   *)
(* (-1 when it read nothing): an index at or past the length is the read   *)
(* that panics in the source.                                              *)
(***************************************************************************)
TLS_VERSION_MAJOR == 3
CLIENT_HELLO == 1
SNI_EXTENSION == 0
ALPN_EXTENSION == 16

\* record[i]
Byte(rec, i) == IF i < Len(rec) THEN rec[i + 1] ELSE 0

\* ((record[i] as usize) << 8) | (record[i + 1] as usize)
U16(rec, i) == Byte(rec, i) * 256 + Byte(rec, i + 1)

\* the 24-bit handshake length
U24(rec, i) == Byte(rec, i) * 65536 + Byte(rec, i + 1) * 256 + Byte(rec, i + 2)

\* &record[from + 1..to + 1]
Slice_mut(rec, from, to) == [i \in 1..(to - from) |-> Byte(rec, from + i)]
\* &record[from..to]
Slice(rec, from, to) == [i \in 1..(to - from) |-> Byte(rec, from + i - 1)]

IsCont(b) == b >= 128 /\ b <= 191

\* std::str::from_utf8(..).is_ok(): RFC 3629 well-formed sequences.
RECURSIVE from_utf8_ok(_)
from_utf8_ok(bytes) ==
    IF bytes = <<>> THEN TRUE
    ELSE LET b == bytes[1]
             n == Len(bytes)
             at(i) == IF i <= n THEN bytes[i] ELSE 0
             rest(k) == SubSeq(bytes, k + 1, n)
         IN IF b < 128 THEN from_utf8_ok(rest(1))
            ELSE IF b >= 194 /\ b <= 223
            THEN IsCont(at(2)) /\ from_utf8_ok(rest(2))
            ELSE IF b >= 224 /\ b <= 239
            THEN /\ IsCont(at(2)) /\ IsCont(at(3))
                 /\ b = 224 => at(2) >= 160
                 /\ b = 237 => at(2) <= 159
                 /\ from_utf8_ok(rest(3))
            ELSE IF b >= 240 /\ b <= 244
            THEN /\ IsCont(at(2)) /\ IsCont(at(3)) /\ IsCont(at(4))
                 /\ b = 240 => at(2) >= 144
                 /\ b = 244 => at(2) <= 143
                 /\ from_utf8_ok(rest(4))
            ELSE FALSE

SniOk(name, hi) == [kind |-> "Ok", name |-> name, error |-> "", hi |-> hi]
SniErr(e, hi) == [kind |-> "Err", name |-> <<>>, error |-> e, hi |-> hi]

\* `record.len() < handshake_start + 4` is not checked.
HandshakeHeaderLacking_mut(len) == FALSE
\* `record.len() < handshake_start + 4`
HandshakeHeaderLacking(len) == len < 5 + 4

\* `record.len() < pos + extensions_length` is not checked.
ExtensionsTruncated_mut(len, pos, extensions_length) == FALSE
\* `record.len() < pos + extensions_length`
ExtensionsTruncated(len, pos, extensions_length) == len < pos + extensions_length

\* The inner `while pos + 3 <= extensions_end` loop over the server names.
\* "Continue" is the loop running out: the outer loop goes on from pos.
RECURSIVE SniNames(_, _, _, _)
SniNames(rec, pos, extensions_end, hi) ==
    IF pos + 3 > extensions_end
    THEN [kind |-> "Continue", pos |-> pos, hi |-> hi]
    ELSE LET name_type == Byte(rec, pos)
             name_length == U16(rec, pos + 1)
             p == pos + 3
             h == Max(hi, pos + 2)
         IN IF p + name_length > extensions_end
            THEN SniErr("MessageTruncated", h)
            ELSE IF name_type = 0
            THEN LET name == Slice(rec, p, p + name_length)
                     h2 == IF name_length > 0 THEN Max(h, p + name_length - 1) ELSE h
                 IN IF from_utf8_ok(name) THEN SniOk(name, h2)
                    ELSE SniErr("InvalidSniFormat", h2)
            ELSE SniNames(rec, p + name_length, extensions_end, h)

\* The `while pos + 4 <= extensions_end` loop of extract_sni.
RECURSIVE SniExtensions(_, _, _, _)
SniExtensions(rec, pos, extensions_end, hi) ==
    IF pos + 4 > extensions_end THEN SniErr("InvalidSniFormat", hi)
    ELSE LET extension_type == U16(rec, pos)
             extension_length == U16(rec, pos + 2)
             p == pos + 4
             h == Max(hi, pos + 3)
         IN IF extension_type = SNI_EXTENSION
            THEN IF p + extension_length > extensions_end
                 THEN SniErr("MessageTruncated", h)
                 ELSE IF extension_length < 2
                 THEN SniErr("InvalidSniFormat", h)
                 ELSE LET sni_list_length == U16(rec, p)
                          h2 == Max(h, p + 1)
                      IN IF sni_list_length + 2 > extension_length
                         THEN SniErr("InvalidSniFormat", h2)
                         ELSE LET r == SniNames(rec, p + 2, extensions_end, h2)
                              IN IF r.kind = "Continue"
                                 THEN SniExtensions(rec, r.pos, extensions_end, r.hi)
                                 ELSE r
            ELSE SniExtensions(rec, p + extension_length, extensions_end, h)

\* The walk both parsers make from the handshake body to the extensions:
\* version and random, session id, cipher suites, compression methods, the
\* extensions length.  Yields the extensions region or "Truncated".
HelloFields(rec, hi) ==
    LET len == Len(rec)
        pos == 5 + 4 + 2 + 32
    IN IF len < pos + 1 THEN [kind |-> "Truncated", hi |-> hi]
       ELSE LET pos2 == pos + 1 + Byte(rec, pos)
            IN IF len < pos2 + 2 THEN [kind |-> "Truncated", hi |-> Max(hi, pos)]
               ELSE LET pos3 == pos2 + 2 + U16(rec, pos2)
                    IN IF len < pos3 + 1 THEN [kind |-> "Truncated", hi |-> Max(hi, pos2 + 1)]
                       ELSE LET pos4 == pos3 + 1 + Byte(rec, pos3)
                            IN IF len < pos4 + 2
                               THEN [kind |-> "Truncated", hi |-> Max(hi, pos3)]
                               ELSE LET extensions_length == U16(rec, pos4)
                                        pos5 == pos4 + 2
                                    IN IF ExtensionsTruncated(len, pos5, extensions_length)
                                       THEN [kind |-> "Truncated", hi |-> Max(hi, pos4 + 1)]
                                       ELSE [kind |-> "Extensions", pos |-> pos5,
                                             extensions_end |-> pos5 + extensions_length,
                                             hi |-> Max(hi, pos4 + 1)]

\* extract_sni(record)
extract_sni(rec) ==
    LET len == Len(rec)
    IN IF len < 5 THEN SniErr("MessageTruncated", -1)
       ELSE IF Byte(rec, 0) # TLS_HANDSHAKE THEN SniErr("InvalidHandshakeType", 0)
       ELSE IF Byte(rec, 1) # TLS_VERSION_MAJOR THEN SniErr("InvalidTlsVersion", 1)
       ELSE IF len < U16(rec, 3) + 5 THEN SniErr("MessageTruncated", 4)
       ELSE IF HandshakeHeaderLacking(len) THEN SniErr("MessageTruncated", 4)
       ELSE IF Byte(rec, 5) # CLIENT_HELLO THEN SniErr("InvalidClientHello", 5)
       ELSE IF len < 5 + 4 + U24(rec, 6) THEN SniErr("MessageTruncated", 8)
       ELSE LET f == HelloFields(rec, 8)
            IN IF f.kind = "Truncated" THEN SniErr("MessageTruncated", f.hi)
               ELSE SniExtensions(rec, f.pos, f.extensions_end, f.hi)

AlpnSome(name, hi) == [kind |-> "Some", name |-> name, error |-> "", hi |-> hi]
AlpnNone(hi) == [kind |-> "None", name |-> <<>>, error |-> "", hi |-> hi]

\* The `while pos + 4 <= extensions_end` loop of extract_alpn.
RECURSIVE AlpnExtensions(_, _, _, _)
AlpnExtensions(rec, pos, extensions_end, hi) ==
    IF pos + 4 > extensions_end THEN AlpnNone(hi)
    ELSE LET extension_type == U16(rec, pos)
             extension_length == U16(rec, pos + 2)
             p == pos + 4
             h == Max(hi, pos + 3)
         IN IF extension_type = ALPN_EXTENSION
            THEN IF p + extension_length > extensions_end \/ extension_length < 2
                 THEN AlpnNone(h)
                 ELSE LET alpn_list_length == U16(rec, p)
                          p2 == p + 2
                          h2 == Max(h, p + 1)
                      IN IF \/ alpn_list_length + 2 > extension_length
                            \/ p2 + alpn_list_length > extensions_end
                         THEN AlpnNone(h2)
                         ELSE IF p2 < extensions_end
                         THEN LET protocol_length == Byte(rec, p2)
                                  p3 == p2 + 1
                                  h3 == Max(h2, p2)
                              IN IF p3 + protocol_length <= extensions_end
                                 THEN LET name == Slice(rec, p3, p3 + protocol_length)
                                          h4 == IF protocol_length > 0
                                                THEN Max(h3, p3 + protocol_length - 1)
                                                ELSE h3
                                      IN IF from_utf8_ok(name) THEN AlpnSome(name, h4)
                                         ELSE AlpnNone(h4)
                                 ELSE AlpnNone(h3)
                         ELSE AlpnNone(h2)
            ELSE AlpnExtensions(rec, p + extension_length, extensions_end, h)

\* extract_alpn(record)
extract_alpn(rec) ==
    LET len == Len(rec)
    IN IF len < 5 + 4 THEN AlpnNone(-1)
       ELSE IF Byte(rec, 0) # TLS_HANDSHAKE \/ Byte(rec, 5) # CLIENT_HELLO
       THEN AlpnNone(IF Byte(rec, 0) # TLS_HANDSHAKE THEN 0 ELSE 5)
       ELSE IF len < 5 + 4 + U24(rec, 6) THEN AlpnNone(8)
       ELSE LET f == HelloFields(rec, 8)
            IN IF f.kind = "Truncated" THEN AlpnNone(f.hi)
               ELSE AlpnExtensions(rec, f.pos, f.extensions_end, f.hi)

(***************************************************************************)
(* The records the parsers are applied to.  A record is built the way a    *)
(* client lays out a ClientHello (record header, handshake header,         *)
(* version, random, session id, cipher suites, compression methods,        *)
(* extensions), from a description of its extensions, and then carries at  *)
(* most one defect: a wrong header byte, a declared length one off, an     *)
(* extension whose declared length is one more than its body, a cut, or a  *)
(* cut whose outer lengths were made to agree with what is left.           *)
(* The description stays beside the bytes, so that what the record is can  *)
(* be told without parsing it.                                             *)
(***************************************************************************)
MaxExts == 2
MaxSessionId == 1

RECURSIVE Fill(_, _)
Fill(b, n) == IF n = 0 THEN <<>> ELSE <<b>> \o Fill(b, n - 1)

U16Bytes(n) == <<n \div 256, n % 256>>
U24Bytes(n) == <<n \div 65536, (n \div 256) % 256, n % 256>>

RECURSIVE Flatten(_)
Flatten(seqs) == IF seqs = <<>> THEN <<>> ELSE Head(seqs) \o Flatten(Tail(seqs))

HostA == <<97>>
HostAB == <<97, 98>>
HostUtf8 == <<195, 169>>
HostBad == <<255>>

\* server_name entries: name_type and name
NameEntry(t, n) == [name_type |-> t, name |-> n]

SniLists ==
    { <<>>,
      <<NameEntry(0, HostA)>>,
      <<NameEntry(0, <<>>)>>,
      <<NameEntry(0, HostUtf8)>>,
      <<NameEntry(0, HostBad)>>,
      <<NameEntry(1, HostA)>>,
      <<NameEntry(1, HostA), NameEntry(0, HostAB)>>,
      <<NameEntry(0, HostA), NameEntry(0, HostAB)>> }

NameEntryBytes(e) == <<e.name_type>> \o U16Bytes(Len(e.name)) \o e.name

ServerNameList(names) ==
    LET list == Flatten([i \in 1..Len(names) |-> NameEntryBytes(names[i])])
    IN U16Bytes(Len(list)) \o list

ProtocolH2 == <<104, 50>>
ProtocolHttp11 == <<104, 116, 116, 112, 47, 49, 46, 49>>
AlpnBody(protocols) ==
    LET list == Flatten([i \in 1..Len(protocols) |->
                            <<Len(protocols[i])>> \o protocols[i]])
    IN U16Bytes(Len(list)) \o list

AlpnLists == { <<ProtocolH2>>, <<HostBad>>, <<ProtocolH2, ProtocolHttp11>> }

\* extension descriptions: the type, the body, the names of an SNI one and
\* the protocols of an ALPN one
ExtChoices ==
    { [type |-> SNI_EXTENSION, body |-> ServerNameList(names), names |-> names,
       protocols |-> <<>>] : names \in SniLists }
    \cup { [type |-> ALPN_EXTENSION, body |-> AlpnBody(protocols), names |-> <<>>,
            protocols |-> protocols] : protocols \in AlpnLists }
    \cup { [type |-> 23, body |-> <<>>, names |-> <<>>, protocols |-> <<>>],
           [type |-> 10, body |-> <<0, 29>>, names |-> <<>>, protocols |-> <<>>] }

SniIndexes(exts) == {i \in 1..Len(exts) : exts[i].type = SNI_EXTENSION}

\* at most one server_name extension, as a client sends
ExtLists ==
    {exts \in UNION {[1..n -> ExtChoices] : n \in 0..MaxExts} :
        Cardinality(SniIndexes(exts)) <= 1}

\* declared length of extension i: its body, one more where skewed
ExtBytes(x, skew) == U16Bytes(x.type) \o U16Bytes(Len(x.body) + skew) \o x.body

ExtensionsBytes(exts, skewed) ==
    Flatten([i \in 1..Len(exts) |-> ExtBytes(exts[i], IF i = skewed THEN 1 ELSE 0)])

HeaderDefects == {"type", "version", "handshake"}
LengthDefects == {"record-", "record+", "handshake-", "handshake+",
                  "extensions-", "extensions+"}

Delta(defect, less, more) ==
    IF defect.kind = less THEN -1 ELSE IF defect.kind = more THEN 1 ELSE 0

\* the whole record of a description, before any cut
Layout(sid, exts, defect) ==
    LET skewed == IF defect.kind = "extension" THEN defect.arg ELSE 0
        extensions == ExtensionsBytes(exts, skewed)
        body == <<3, 3>> \o Fill(66, 32) \o <<sid>> \o Fill(0, sid)
                \o <<0, 2, 192, 47>> \o <<1, 0>>
                \o U16Bytes(Len(extensions) + Delta(defect, "extensions-", "extensions+"))
                \o extensions
        handshake == <<IF defect.kind = "handshake" THEN 2 ELSE CLIENT_HELLO>>
                     \o U24Bytes(Len(body) + Delta(defect, "handshake-", "handshake+"))
                     \o body
    IN <<IF defect.kind = "type" THEN 21 ELSE TLS_HANDSHAKE,
         IF defect.kind = "version" THEN 2 ELSE TLS_VERSION_MAJOR, 1>>
       \o U16Bytes(Len(handshake) + Delta(defect, "record-", "record+"))
       \o handshake

NoDefect == [kind |-> "none", arg |-> 0]

DefectsOf(sid, exts) ==
    {NoDefect}
    \cup {[kind |-> k, arg |-> 0] : k \in HeaderDefects \cup LengthDefects}
    \cup {[kind |-> "extension", arg |-> i] : i \in 1..Len(exts)}
    \cup {[kind |-> k, arg |-> n] :
             k \in {"cut", "recut"}, n \in 0..(Len(Layout(sid, exts, NoDefect)) - 1)}

\* Records shorter than a handshake header whose record length is right.
ShortRecords ==
    { <<t, v, 1>> \o U16Bytes(Len(body)) \o body :
        t \in {TLS_HANDSHAKE, 21}, v \in {TLS_VERSION_MAJOR, 2},
        body \in {<<>>, <<1>>, <<2>>, <<1, 0>>, <<2, 0, 0>>, <<1, 0, 0, 0>>, <<2, 0, 0, 0>>} }

\* Where extension i starts in the extensions region, and whether its
\* declared length runs past the end of the region.
ExtStart(exts, i) == Len(ExtensionsBytes(SubSeq(exts, 1, i - 1), 0))
ExtOverruns(exts, skewed) ==
    \E i \in 1..Len(exts) :
        ExtStart(exts, i) + 4 + Len(exts[i].body) + (IF i = skewed THEN 1 ELSE 0)
            > Len(ExtensionsBytes(exts, 0))

\* The first type-0 name of the server_name extension, if there is one.
HostNames(exts) ==
    LET names == Flatten([i \in 1..Len(exts) |-> exts[i].names])
        zero == {k \in 1..Len(names) : names[k].name_type = 0}
    IN IF zero = {} THEN <<>>
       ELSE <<names[CHOOSE k \in zero : \A j \in zero : k <= j].name>>

\* The first protocol of the first ALPN extension, if there is one.
FirstProtocol(exts) ==
    LET alpn == {i \in 1..Len(exts) : exts[i].type = ALPN_EXTENSION}
    IN IF alpn = {} THEN <<>>
       ELSE <<exts[CHOOSE i \in alpn : \A j \in alpn : i <= j].protocols[1]>>

\* The first n bytes of a record, with the record length and the handshake
\* length rewritten to what is left: the lengths inside are the ones that
\* now run past the end.
Recut(rec, n) ==
    [i \in 1..n |->
        IF i \in {4, 5} THEN U16Bytes(Max(n - 5, 0))[i - 3]
        ELSE IF i \in {7, 8, 9} THEN U24Bytes(Max(n - 9, 0))[i - 6]
        ELSE rec[i]]

Described(sid, exts, defect) ==
    [bytes |-> IF defect.kind = "cut"
               THEN Take(Layout(sid, exts, NoDefect), defect.arg)
               ELSE IF defect.kind = "recut"
               THEN Recut(Layout(sid, exts, NoDefect), defect.arg)
               ELSE Layout(sid, exts, defect),
     described |-> TRUE,
     defect |-> defect.kind,
     has_sni_ext |-> SniIndexes(exts) # {},
     host |-> HostNames(exts),
     alpn |-> FirstProtocol(exts),
     several |-> \E i, j \in 1..Len(exts) :
                    Len(exts[i].names) > 1 /\ Len(exts[j].protocols) > 1,
     overrun |-> defect.kind = "extension" /\ ExtOverruns(exts, defect.arg)]

Undescribed(b) ==
    [bytes |-> b, described |-> FALSE, defect |-> "short",
     has_sni_ext |-> FALSE, host |-> <<>>, alpn |-> <<>>, several |-> FALSE,
     overrun |-> FALSE]

NotParsed == [kind |-> "NotParsed", name |-> <<>>, error |-> "", hi |-> -1]

SniInit ==
    /\ \/ \E sid \in 0..MaxSessionId, exts \in ExtLists :
             \E defect \in DefectsOf(sid, exts) :
                sniRecord = Described(sid, exts, defect)
       \/ \E b \in ShortRecords : sniRecord = Undescribed(b)
    /\ sniResult = NotParsed
    /\ alpnResult = NotParsed

\* `pub fn extract_sni`, applied to the bytes a client sent
ExtractSni ==
    /\ sniResult.kind = "NotParsed"
    /\ sniResult' = extract_sni(sniRecord.bytes)
    /\ UNCHANGED <<sniRecord, alpnResult>>
    /\ UNCHANGED notSni

\* `pub fn extract_alpn`, applied to the same bytes
ExtractAlpn ==
    /\ alpnResult.kind = "NotParsed"
    /\ alpnResult' = extract_alpn(sniRecord.bytes)
    /\ UNCHANGED <<sniRecord, sniResult>>
    /\ UNCHANGED notSni

SniNext == ExtractSni \/ ExtractAlpn

(***************************************************************************)
(* detect_protocol: the classifier of the peeked bytes                      *)
(*                                                                         *)
(* Buffers are sequences of bytes, at most PEEK_SIZE long.                 *)
(***************************************************************************)
PEEK_SIZE == 24

\* b"GET ", b"POST ", b"HEAD ", b"PUT ", b"DELETE ", b"OPTIONS ", b"PATCH ",
\* b"TRACE "
HTTP_METHODS ==
    << <<71, 69, 84, 32>>, <<80, 79, 83, 84, 32>>, <<72, 69, 65, 68, 32>>,
       <<80, 85, 84, 32>>, <<68, 69, 76, 69, 84, 69, 32>>,
       <<79, 80, 84, 73, 79, 78, 83, 32>>, <<80, 65, 84, 67, 72, 32>>,
       <<84, 82, 65, 67, 69, 32>> >>

\* b"PRI * HTTP/2.0\r\n\r\nSM\r\n\r\n"
HTTP2_PREFACE ==
    <<80, 82, 73, 32, 42, 32, 72, 84, 84, 80, 47, 50, 46, 48,
      13, 10, 13, 10, 83, 77, 13, 10, 13, 10>>

\* b"SSH-"
SSH_VERSION_PREFIX == <<83, 83, 72, 45>>

\* "HTTP/1.0" and "HTTP/1.1"
Http10Text == <<72, 84, 84, 80, 47, 49, 46, 48>>
Http11Text == <<72, 84, 84, 80, 47, 49, 46, 49>>

\* str::contains
contains(str, pat) ==
    \E i \in 1..(Len(str) - Len(pat) + 1) : SubSeq(str, i, i + Len(pat) - 1) = pat

\* peek_buf.iter().position(|&b| b == b'\n'), 0 for None, else 1 + position
LfPosition(buf) ==
    LET at == {i \in 1..Len(buf) : buf[i] = 10}
    IN IF at = {} THEN 0 ELSE CHOOSE i \in at : \A j \in at : i <= j

\* detect_http_version always answers Http11.
detect_http_version_mut(bytes) == "Http11"
\* ConnectionHandler::detect_http_version
detect_http_version(bytes) ==
    IF from_utf8_ok(bytes) /\ contains(bytes, Http10Text) THEN "Http10"
    ELSE IF from_utf8_ok(bytes) /\ contains(bytes, Http11Text) THEN "Http11"
    ELSE "Http11"

\* ConnectionHandler::detect_protocol
detect_protocol(peek_buf) ==
    IF /\ Len(peek_buf) >= Len(HTTP2_PREFACE)
       /\ SubSeq(peek_buf, 1, Len(HTTP2_PREFACE)) = HTTP2_PREFACE
    THEN "Http2"
    ELSE IF \E k \in 1..Len(HTTP_METHODS) : starts_with(peek_buf, HTTP_METHODS[k])
    THEN IF LfPosition(peek_buf) # 0
         THEN detect_http_version(SubSeq(peek_buf, 1, LfPosition(peek_buf) - 1))
         ELSE "Http11"
    ELSE IF /\ Len(peek_buf) >= Len(SSH_VERSION_PREFIX)
            /\ SubSeq(peek_buf, 1, Len(SSH_VERSION_PREFIX)) = SSH_VERSION_PREFIX
    THEN "Ssh"
    ELSE IF peek_buf # <<>> /\ peek_buf[1] = 22 THEN "Tls"
    ELSE "Unknown"

\* What follows the method in the requests a client may open with: a
\* request line of either version, one with a byte that is not UTF-8, one
\* whose version text comes after the first LF, one naming both versions.
RequestTails ==
    { <<47, 32>> \o Http10Text \o <<13, 10>>,
      <<47, 32>> \o Http11Text \o <<13, 10>>,
      <<47, 255, 32>> \o Http10Text \o <<10>>,
      <<47, 10>> \o Http10Text \o <<10>>,
      <<47, 32>> \o Http11Text \o <<32>> \o Http10Text \o <<10>> }

\* The first bytes of a connection: every prefix, of at most PEEK_SIZE
\* bytes, of a preface, a request, an SSH banner, a TLS record, other bytes.
Openings ==
    {HTTP2_PREFACE, Take(HTTP2_PREFACE, 23) \o <<88>>,
     SSH_VERSION_PREFIX \o <<50, 46, 48, 10>>, <<83, 83, 72, 10>>,
     <<22, 3, 3, 0, 5>>, <<0, 1, 2, 3>>, <<23, 3, 3>>,
     <<71, 69, 84, 88, 32>> \o Http10Text \o <<10>>,
     <<103, 101, 116, 32, 47, 32>> \o Http10Text \o <<10>>}
    \cup {HTTP_METHODS[k] \o tail : k \in 1..Len(HTTP_METHODS), tail \in RequestTails}

PeekBufs == {Take(o, n) : o \in Openings, n \in 0..PEEK_SIZE}

DetectInit ==
    /\ dpBuf \in PeekBufs
    /\ dpResult = "none"

\* process_connection: `self.detect_protocol(&peek_buf)`
DetectProtocol ==
    /\ dpResult = "none"
    /\ dpResult' = detect_protocol(dpBuf)
    /\ UNCHANGED dpBuf
    /\ UNCHANGED notDetect

DetectNext == DetectProtocol

(***************************************************************************)
(* The allowlist functions applied to hostnames and patterns               *)
(*                                                                         *)
(* Hostnames and domains are strings over a small alphabet with a dot and  *)
(* an upper-case letter; an allowlist holds one pattern made from a        *)
(* domain, alone or beside one of a few fixed patterns, on either side.    *)
(***************************************************************************)
MaxHostLen == 3
MaxDomainLen == 2

HostAlphabet == {"a", ".", "A"}
StringsUpTo(n) == UNION {[1..k -> HostAlphabet] : k \in 0..n}

\* "*.d", "d" and "*d" for a domain d
PatternsOf(d) == {<<"*", ".">> \o d, d, <<"*">> \o d}
OtherPatterns == {<<"*", "A">>, <<"a">>, <<"*">>}

AllowInit ==
    /\ alHost \in StringsUpTo(MaxHostLen)
    /\ \E d \in StringsUpTo(MaxDomainLen) : \E p \in PatternsOf(d) :
          \/ alList = <<p>>
          \/ \E q \in OtherPatterns : alList = <<p, q>> \/ alList = <<q, p>>
    /\ alMatches = <<>>
    /\ alAllowed = "none"

\* matches_allowlist_pattern(hostname, pattern) for each pattern of the list
MatchPatterns ==
    /\ alMatches = <<>>
    /\ alMatches' = [i \in 1..Len(alList) |-> matches_allowlist_pattern(alHost, alList[i])]
    /\ UNCHANGED <<alHost, alList, alAllowed>>
    /\ UNCHANGED notAllow

\* self.is_host_allowed(&host, allowlist)
CheckHostAllowed ==
    /\ alAllowed = "none"
    /\ alAllowed' = IF is_host_allowed(alHost, alList) THEN "yes" ELSE "no"
    /\ UNCHANGED <<alHost, alList, alMatches>>
    /\ UNCHANGED notAllow

AllowNext == MatchPatterns \/ CheckHostAllowed

(***************************************************************************)
(* extract_host: the reader of the HTTP/1.x header block                    *)
(*                                                                         *)
(* A request is a sequence of bytes; each read of the socket returns some  *)
(* positive number of the bytes not yet read, or 0 at the end.             *)
(***************************************************************************)
READ_BUFFER_SIZE == 16384
MaxRawLen == 6

CRLFCRLF == <<13, 10, 13, 10>>

\* find_headers_end always adds 3 to the position.
find_headers_end_mut(buffer) ==
    LET at == {p \in 0..(Len(buffer) - 4) : SubSeq(buffer, p + 1, p + 4) = CRLFCRLF}
    IN IF at = {} THEN 0 ELSE (CHOOSE p \in at : \A q \in at : p <= q) + 3
\* find_headers_end: windows(4).position(..).map(|pos| pos + 4), 0 for None
find_headers_end(buffer) ==
    LET at == {p \in 0..(Len(buffer) - 4) : SubSeq(buffer, p + 1, p + 4) = CRLFCRLF}
    IN IF at = {} THEN 0 ELSE (CHOOSE p \in at : \A q \in at : p <= q) + 4

\* str::lines: split at LF, a CR before the LF belongs to the line ending
RECURSIVE lines(_)
lines(str) ==
    IF str = <<>> THEN <<>>
    ELSE LET at == {i \in 1..Len(str) : str[i] = 10}
             cut == IF at = {} THEN Len(str) + 1 ELSE CHOOSE i \in at : \A j \in at : i <= j
             raw == SubSeq(str, 1, cut - 1)
             line == IF at # {} /\ raw # <<>> /\ raw[Len(raw)] = 13
                     THEN SubSeq(raw, 1, Len(raw) - 1) ELSE raw
         IN <<line>> \o lines(SubSeq(str, cut + 1, Len(str)))

IsWhitespace(b) == b \in {9, 10, 11, 12, 13, 32}

\* str::trim
RECURSIVE trim(_)
trim(str) ==
    IF str = <<>> THEN str
    ELSE IF IsWhitespace(str[1]) THEN trim(Tail(str))
    ELSE IF IsWhitespace(str[Len(str)]) THEN trim(SubSeq(str, 1, Len(str) - 1))
    ELSE str

\* u8::to_ascii_lowercase
AsciiLower(b) == IF b >= 65 /\ b <= 90 THEN b + 32 ELSE b

\* b"host:"
HostColon == <<104, 111, 115, 116, 58>>

\* The `for line in headers_str.lines()` loop of extract_host_header.
\* `line[..5]` panics when byte 5 of the line is inside a character.
RECURSIVE HostOfLines(_)
HostOfLines(ls) ==
    IF ls = <<>> THEN [kind |-> "None", host |-> <<>>]
    ELSE LET line == Head(ls)
         IN IF Len(line) > 5
            THEN IF line[6] >= 128 /\ line[6] <= 191
                 THEN [kind |-> "Panic", host |-> <<>>]
                 ELSE IF [i \in 1..5 |-> AsciiLower(line[i])] = HostColon
                 THEN [kind |-> "Some", host |-> trim(SubSeq(line, 6, Len(line)))]
                 ELSE HostOfLines(Tail(ls))
            ELSE HostOfLines(Tail(ls))

\* extract_host_header
extract_host_header(headers) ==
    IF ~from_utf8_ok(headers) THEN [kind |-> "None", host |-> <<>>]
    ELSE HostOfLines(lines(headers))

NoHostResult == [kind |-> "none", host |-> <<>>, count |-> 0, error |-> ""]
HostOk(host, count) == [kind |-> "Ok", host |-> host, count |-> count, error |-> ""]
HostErr(e) == [kind |-> "Err", host |-> <<>>, count |-> 0, error |-> e]

\* Requests: a request line, header lines, the empty line, and a body that
\* may itself hold an empty line.  HostLines are the forms of a Host line,
\* with the value the line carries once trimmed.
HostLines ==
    { [line |-> <<72, 111, 115, 116, 58, 32, 97>>, value |-> <<97>>],
      [line |-> <<104, 79, 115, 84, 58, 32, 32, 97, 46, 98, 9>>, value |-> <<97, 46, 98>>],
      [line |-> <<72, 111, 115, 116, 58, 97, 58, 56>>, value |-> <<97, 58, 56>>] }

\* header lines that come before the Host line: none, a plain one, one that
\* is not UTF-8, one whose sixth byte is the second byte of a character
OtherLines ==
    { <<>>, <<88, 58, 32, 121, 13, 10>>, <<88, 58, 255, 13, 10>>,
      <<88, 97, 58, 32, 195, 169, 13, 10>> }

Bodies == { <<>>, <<66>>, <<66, 13, 10, 13, 10>> }

Requests ==
    { [bytes |-> <<71, 13, 10>> \o other \o h.line \o CRLFCRLF \o body,
       block |-> 3 + Len(other) + Len(h.line) + 4,
       host |-> <<h.value>>] : other \in OtherLines, h \in HostLines, body \in Bodies }
    \cup { [bytes |-> <<71, 13, 10>> \o other \o <<13, 10>> \o body,
            block |-> 3 + Len(other) + 2, host |-> <<>>]
              : other \in OtherLines, body \in Bodies }

\* Any bytes at all, for find_headers_end.
RawStreams ==
    { [bytes |-> b, block |-> 0, host |-> <<>>] :
        b \in UNION {[1..n -> {13, 10, 120}] : n \in 0..MaxRawLen} }

HttpInit ==
    /\ hxStream \in Requests \cup RawStreams
    /\ hxBuffer = <<>>
    /\ hxTotalRead = 0
    /\ hxEnd = 0
    /\ hxResult = NoHostResult

\* One turn of the loop of extract_host with a read of n > 0 bytes.
HostRead(n) ==
    /\ hxResult.kind = "none"
    /\ n >= 1 /\ n <= READ_BUFFER_SIZE
    /\ n <= Len(hxStream.bytes) - Len(hxBuffer)
    /\ hxBuffer' = hxBuffer \o SubSeq(hxStream.bytes, Len(hxBuffer) + 1, Len(hxBuffer) + n)
    /\ hxTotalRead' = hxTotalRead + n
    /\ hxEnd' = find_headers_end(hxBuffer')
    /\ hxResult' =
          IF hxEnd' # 0
          THEN LET h == extract_host_header(SubSeq(hxBuffer', 1, hxEnd'))
               IN IF h.kind = "Some" THEN HostOk(h.host, hxTotalRead')
                  ELSE IF h.kind = "Panic" THEN [NoHostResult EXCEPT !.kind = "Panic"]
                  ELSE HostErr("NoHostHeader")
          ELSE IF hxTotalRead' > READ_BUFFER_SIZE * 2 THEN HostErr("InvalidRequest")
          ELSE hxResult
    /\ UNCHANGED hxStream
    /\ UNCHANGED notHttp

\* The read returns 0: the client has closed.
HostReadEof ==
    /\ hxResult.kind = "none"
    /\ Len(hxBuffer) = Len(hxStream.bytes)
    /\ hxResult' = HostErr("InvalidRequest")
    /\ UNCHANGED <<hxStream, hxBuffer, hxTotalRead, hxEnd>>
    /\ UNCHANGED notHttp

HttpNext ==
    \/ \E n \in 1..(Len(hxStream.bytes) - Len(hxBuffer)) : HostRead(n)
    \/ HostReadEof

(***************************************************************************)
(* extract_host and the size of the header block                            *)
(*                                                                         *)
(* The same loop with the bytes left out: the client sends a header block  *)
(* of hlBlock bytes, CR LF CR LF at its end and nowhere before, with a     *)
(* Host line, and goes on sending; find_headers_end answers Some as soon   *)
(* as the buffer holds the whole block.                                    *)
(***************************************************************************)
MaxReads == 4
MaxOver == 2

\* what a read may return: a full chunk, one byte less, a single byte
ReadSizes == {READ_BUFFER_SIZE, READ_BUFFER_SIZE - 1, 1}

\* header blocks around the limit and around the most that is ever read
BlockLengths ==
    {READ_BUFFER_SIZE * 2 + k : k \in (0 - MaxOver)..MaxOver}
    \cup {READ_BUFFER_SIZE * 3 + k : k \in (0 - MaxOver)..MaxOver}

LimitInit ==
    /\ hlBlock \in BlockLengths
    /\ hlTotalRead = 0
    /\ hlReads = 0
    /\ hlResult = "none"

\* One turn of the loop of extract_host with a read of n bytes.
LimitRead(n) ==
    /\ hlResult = "none"
    /\ hlReads < MaxReads
    /\ hlReads' = hlReads + 1
    /\ hlTotalRead' = hlTotalRead + n
    /\ hlResult' = IF hlTotalRead' >= hlBlock THEN "Ok"
                   ELSE IF hlTotalRead' > READ_BUFFER_SIZE * 2 THEN "InvalidRequest"
                   ELSE "none"
    /\ UNCHANGED hlBlock
    /\ UNCHANGED notLimit

LimitNext == \E n \in ReadSizes : LimitRead(n)

(***************************************************************************)
(* The pool's cleanup task over the lifetime of its owner                   *)
(*                                                                         *)
(* The pool is built either by ConnectionHandler::new on behalf of         *)
(* run_proxy, which makes no further call on it at start-up, or by a       *)
(* program that uses ConnectionPool directly and may call                  *)
(* start_cleanup_task.  The task, once spawned, ticks at once and then     *)
(* every interval; nothing in the crate aborts it.                         *)
(***************************************************************************)
SweepMaxTime == 4
MaxCleanupInterval == 2

SweepInit ==
    /\ swOwner \in {"run_proxy", "api"}
    /\ swEnabled \in BOOLEAN
    /\ swInterval \in 1..MaxCleanupInterval
    /\ swPc = "select"
    /\ swTask = "none"
    /\ swNextTick = 0
    /\ swLastCleanup = 0
    /\ swCleanups = 0

\* pool.start_cleanup_task(interval): tokio::spawn of the ticker loop; the
\* first tick of tokio::time::interval completes immediately.
start_cleanup_task ==
    /\ swOwner = "api"
    /\ swPc = "select"
    /\ swTask = "none"
    /\ swTask' = "running"
    /\ swNextTick' = now
    /\ UNCHANGED <<now, swOwner, swEnabled, swInterval, swPc, swLastCleanup, swCleanups>>
    /\ UNCHANGED notSweep

\* ticker.tick().await completes; self.cleanup() runs.
CleanupTick ==
    /\ swTask = "running"
    /\ now = swNextTick
    /\ swCleanups' = swCleanups + 1
    /\ swLastCleanup' = now
    /\ swNextTick' = swNextTick + swInterval
    /\ UNCHANGED <<now, swOwner, swEnabled, swInterval, swPc, swTask>>
    /\ UNCHANGED notSweep

\* run_proxy leaves its loop, drains and returns: the handles of the
\* connection tasks are awaited and the UDP tasks aborted, nothing else.
SweepShutdown ==
    /\ swPc = "select"
    /\ swPc' = "returned"
    /\ UNCHANGED <<now, swOwner, swEnabled, swInterval, swTask, swNextTick,
                   swLastCleanup, swCleanups>>
    /\ UNCHANGED notSweep

\* A second passes; a due tick of the ticker fires first.
SweepTick ==
    /\ now < SweepMaxTime
    /\ swTask = "running" => now < swNextTick
    /\ now' = now + 1
    /\ UNCHANGED sweepVars
    /\ UNCHANGED notSweep

SweepNext ==
    \/ start_cleanup_task
    \/ CleanupTick
    \/ SweepShutdown
    \/ SweepTick

(***************************************************************************)
(* handle_http2_cleartext: the bytes of one connection                      *)
(***************************************************************************)
MaxLater == 2
HTTP2_FRAME_TYPE_HEADERS == 1

\* b":authority"
AuthorityName == <<58, 97, 117, 116, 104, 111, 114, 105, 116, 121>>

IsAsciiAlphanumeric(b) ==
    (b >= 48 /\ b <= 57) \/ (b >= 65 /\ b <= 90) \/ (b >= 97 /\ b <= 122)

\* is_valid_hostname(s)
is_valid_hostname(s) ==
    /\ s # <<>> /\ Len(s) <= 253
    /\ \A i \in 1..Len(s) : IsAsciiAlphanumeric(s[i]) \/ s[i] \in {46, 45, 58, 95}
    /\ \E i \in 1..Len(s) : s[i] \in {46, 58}

\* extract_authority_value(data): the value, or <<>> for None.
extract_authority_value(data) ==
    IF data = <<>> THEN <<>>
    ELSE LET len == data[1]
         IN IF len < 3 \/ len > 255 \/ len + 1 > Len(data) THEN <<>>
            ELSE LET hostname == SubSeq(data, 2, len + 1)
                 IN IF from_utf8_ok(hostname) /\ is_valid_hostname(hostname)
                    THEN hostname ELSE <<>>

\* The first element of a set of numbers, -1 when it is empty.
FirstOf(S) == IF S = {} THEN 0 - 1 ELSE CHOOSE i \in S : \A j \in S : i <= j

\* The search of extract_http2_authority in the payload, <<>> when it ends in
\* Http2FrameError: the literal name followed within 10 bytes by a value,
\* then a byte 0x01, 0x81 or 0x41 among the first len - 20 followed by one.
AuthorityIn(payload) ==
    LET n == Len(payload)
        from(k) == SubSeq(payload, k + 1, n)
        pos == FirstOf({p \in 0..(n - 10) : SubSeq(payload, p + 1, p + 10) = AuthorityName})
        value_start == pos + 10
        offsets == IF pos >= 0 /\ value_start < n
                   THEN {o \in 0..(Min(n - value_start, 10) - 1) :
                            extract_authority_value(from(value_start + o)) # <<>>}
                   ELSE {}
        indexed == {i \in 0..(Max(n - 20, 0) - 1) :
                      /\ payload[i + 1] \in {1, 129, 65}
                      /\ extract_authority_value(from(i + 1)) # <<>>}
    IN IF offsets # {} THEN extract_authority_value(from(value_start + FirstOf(offsets)))
       ELSE IF indexed # {} THEN extract_authority_value(from(FirstOf(indexed) + 1))
       ELSE <<>>

\* `(h[0] << 16) | (h[1] << 8) | h[2]`
frame_length(frame_header) ==
    frame_header[1] * 65536 + frame_header[2] * 256 + frame_header[3]

\* format!("{}:80", host)
target_addr(host) == host \o <<58, 56, 48>>

\* The two writes in the other order.
InitialWrites_mut(preface_buffer, frame_data) == frame_data \o preface_buffer
\* server.write_all(&preface_buffer); server.write_all(&headers_frame)
InitialWrites(preface_buffer, frame_data) == preface_buffer \o frame_data

\* "a.b" and "a.b:8"
Authorities == {<<97, 46, 98>>, <<97, 46, 98, 58, 56>>}

\* Payloads of a HEADERS frame: the name as a literal, the name by its index
\* in the static table with twenty more bytes of header fields behind the
\* value, and one without :authority.
HeaderBlocks ==
    {<<64, 10>> \o AuthorityName \o <<Len(v)>> \o v : v \in Authorities}
    \cup {<<65, Len(v)>> \o v \o Fill(130, 20) : v \in Authorities}
    \cup {<<130, 134, 132>>}

\* A frame: 24-bit length, type, flags, stream id, payload.
Frame(type, payload) ==
    U24Bytes(Len(payload)) \o <<type, 4, 0, 0, 0, 1>> \o payload

\* What a client sends: the preface, a first frame (HEADERS, or the SETTINGS
\* frame a conforming client begins with), and bytes after it.
H2cStreams ==
    {[frame |-> Frame(type, p), later |-> AppBytes(k)] :
        type \in {HTTP2_FRAME_TYPE_HEADERS, 4}, p \in HeaderBlocks, k \in 0..MaxLater}

H2cBytes(s) == HTTP2_PREFACE \o s.frame \o s.later

NoRead == [preface_buffer |-> <<>>, frame_header |-> <<>>, payload |-> <<>>]

H2cInit ==
    /\ h2Stream \in H2cStreams
    /\ h2Sent = 0
    /\ h2Fin = FALSE
    /\ h2Sock = <<>>
    /\ h2Pc = "peek"
    /\ h2Read = NoRead
    /\ h2Host = <<>>
    /\ h2Target = <<>>
    /\ h2Backend = <<>>

\* One segment of the client arrives.
H2cSegment(n) ==
    /\ ~h2Fin
    /\ n >= 1
    /\ h2Sent + n <= Len(H2cBytes(h2Stream))
    /\ h2Sock' = h2Sock \o SubSeq(H2cBytes(h2Stream), h2Sent + 1, h2Sent + n)
    /\ h2Sent' = h2Sent + n
    /\ UNCHANGED <<h2Stream, h2Fin, h2Pc, h2Read, h2Host, h2Target, h2Backend>>
    /\ UNCHANGED notH2c

\* The client's FIN arrives.
H2cFin ==
    /\ ~h2Fin
    /\ h2Fin' = TRUE
    /\ UNCHANGED <<h2Stream, h2Sent, h2Sock, h2Pc, h2Read, h2Host, h2Target, h2Backend>>
    /\ UNCHANGED notH2c

\* peek_bytes returns what has arrived, at most PEEK_SIZE bytes, consuming
\* nothing; only the whole preface leads to handle_http2_cleartext.
H2cPeek ==
    /\ h2Pc = "peek"
    /\ h2Sock # <<>> \/ h2Fin
    /\ h2Pc' = IF h2Sock = <<>> THEN "done_err"
               ELSE IF detect_protocol(Take(h2Sock, PEEK_SIZE)) = "Http2" THEN "preface"
               ELSE "other"
    /\ UNCHANGED <<h2Stream, h2Sent, h2Fin, h2Sock, h2Read, h2Host, h2Target, h2Backend>>
    /\ UNCHANGED notH2c

\* The length read_exact has to bring the buffer of this stage to.
H2cNeed(pc, read) ==
    CASE pc = "preface" -> Len(HTTP2_PREFACE) - Len(read.preface_buffer)
      [] pc = "frame_header" -> 9 - Len(read.frame_header)
      [] OTHER -> frame_length(read.frame_header) - Len(read.payload)

\* Where the handler goes when a read of read_exact has returned.
H2cAfterRead(pc, read) ==
    IF H2cNeed(pc, read) > 0 THEN pc
    ELSE CASE pc = "preface" -> "frame_header"
           [] pc = "frame_header" ->
                IF read.frame_header[4] # HTTP2_FRAME_TYPE_HEADERS THEN "done_ok"
                ELSE IF frame_length(read.frame_header) = 0
                        \/ frame_length(read.frame_header) > 16384 THEN "done_ok"
                ELSE "payload"
           [] OTHER -> IF AuthorityIn(read.payload) = <<>> THEN "done_ok" ELSE "dial"

\* One read of a read_exact, straight from the socket: of the preface in
\* handle_http2_cleartext, of the frame header and of the payload in
\* extract_http2_authority, which then searches the payload; with an
\* authority the target is formatted and connect_to_server called.
H2cRead ==
    /\ h2Pc \in {"preface", "frame_header", "payload"}
    /\ h2Sock # <<>>
    /\ LET need == H2cNeed(h2Pc, h2Read)
           got == Take(h2Sock, need)
       IN /\ h2Read' = CASE h2Pc = "preface" -> [h2Read EXCEPT !.preface_buffer = @ \o got]
                         [] h2Pc = "frame_header" -> [h2Read EXCEPT !.frame_header = @ \o got]
                         [] OTHER -> [h2Read EXCEPT !.payload = @ \o got]
          /\ h2Sock' = Drop(h2Sock, need)
    /\ h2Pc' = H2cAfterRead(h2Pc, h2Read')
    /\ h2Host' = IF h2Pc' = "dial" THEN AuthorityIn(h2Read'.payload) ELSE h2Host
    /\ h2Target' = IF h2Pc' = "dial" THEN target_addr(h2Host') ELSE h2Target
    /\ UNCHANGED <<h2Stream, h2Sent, h2Fin, h2Backend>>
    /\ UNCHANGED notH2c

\* read_exact meets the end of the stream: an error for the preface, Ok(())
\* once inside extract_http2_authority.
H2cEof ==
    /\ h2Pc \in {"preface", "frame_header", "payload"}
    /\ h2Sock = <<>> /\ h2Fin
    /\ h2Pc' = IF h2Pc = "preface" THEN "done_err" ELSE "done_ok"
    /\ UNCHANGED <<h2Stream, h2Sent, h2Fin, h2Sock, h2Read, h2Host, h2Target, h2Backend>>
    /\ UNCHANGED notH2c

\* connect_to_server(&target_addr) returns a stream, or fails.
H2cDial(ok) ==
    /\ h2Pc = "dial"
    /\ h2Pc' = IF ok THEN "write" ELSE "done_err"
    /\ UNCHANGED <<h2Stream, h2Sent, h2Fin, h2Sock, h2Read, h2Host, h2Target, h2Backend>>
    /\ UNCHANGED notH2c

\* The preface and the frame are written to the backend; the splice begins.
H2cWrite ==
    /\ h2Pc = "write"
    /\ h2Backend' = h2Backend
                      \o InitialWrites(h2Read.preface_buffer,
                                       h2Read.frame_header \o h2Read.payload)
    /\ h2Pc' = "splice"
    /\ UNCHANGED <<h2Stream, h2Sent, h2Fin, h2Sock, h2Read, h2Host, h2Target>>
    /\ UNCHANGED notH2c

\* client_to_server of copy_bidirectional_timeout: read, write_all.
H2cSplice ==
    /\ h2Pc = "splice"
    /\ h2Sock # <<>>
    /\ h2Backend' = h2Backend \o Take(h2Sock, COPY_BUFFER_SIZE)
    /\ h2Sock' = Drop(h2Sock, COPY_BUFFER_SIZE)
    /\ UNCHANGED <<h2Stream, h2Sent, h2Fin, h2Pc, h2Read, h2Host, h2Target>>
    /\ UNCHANGED notH2c

\* client_to_server: read returns 0.
H2cSpliceEof ==
    /\ h2Pc = "splice"
    /\ h2Sock = <<>> /\ h2Fin
    /\ h2Pc' = "done_ok"
    /\ UNCHANGED <<h2Stream, h2Sent, h2Fin, h2Sock, h2Read, h2Host, h2Target, h2Backend>>
    /\ UNCHANGED notH2c

H2cNext ==
    \/ \E n \in {1, PEEK_SIZE, Len(H2cBytes(h2Stream)) - h2Sent} : H2cSegment(n)
    \/ H2cFin
    \/ H2cPeek
    \/ H2cRead
    \/ H2cEof
    \/ \E ok \in BOOLEAN : H2cDial(ok)
    \/ H2cWrite
    \/ H2cSplice
    \/ H2cSpliceEof

(***************************************************************************)
(* One backend stream through repeated put_with_http_info / get cycles      *)
(***************************************************************************)
MaxVends == 3

\* Keep-alive on or off, the request limit at one or at MaxRequests + 1.
ReuseConfigs ==
    [enabled : {TRUE}, max_per_host : {MaxPerHost},
     connection_ttl : {ConnectionTtl}, idle_timeout : {PoolIdleTimeout},
     keep_alive_enabled : BOOLEAN,
     max_requests_per_connection : {1, MaxRequests + 1}]

ReuseInit ==
    /\ kaConfig \in ReuseConfigs
    /\ kaBucket = <<>>
    /\ kaHeld = Streams
    /\ kaVended = [s \in Streams |-> 0]
    /\ kaEvicted = {}

\* put_with_http_info(host, s, Http11, true) by the caller that holds s.
ReusePut(s) ==
    /\ s \in kaHeld
    /\ kaVended[s] < MaxVends
    /\ kaHeld' = kaHeld \ {s}
    /\ IF BucketFull(kaBucket, kaConfig)
       THEN /\ kaEvicted' = kaEvicted \cup {s}
            /\ UNCHANGED kaBucket
       ELSE /\ kaBucket' = Append(kaBucket, PooledConnection(s, "Http11", TRUE, 0))
            /\ UNCHANGED kaEvicted
    /\ UNCHANGED <<kaConfig, kaVended>>
    /\ UNCHANGED notReuse

\* get(host), no time having passed: the stream found is handed out.
ReuseGet ==
    /\ kaBucket # <<>>
    /\ LET r == GetScan(kaBucket, kaConfig, 0, ScanStart)
           s == r.conn.stream
       IN /\ kaBucket' = r.bucket
          /\ kaEvicted' = kaEvicted \cup SeqToSet(r.evicted)
          /\ kaHeld' = IF s # None THEN kaHeld \cup {s} ELSE kaHeld
          /\ kaVended' = IF s # None THEN [kaVended EXCEPT ![s] = @ + 1] ELSE kaVended
    /\ UNCHANGED kaConfig
    /\ UNCHANGED notReuse

ReuseNext ==
    \/ \E s \in Streams : ReusePut(s)
    \/ ReuseGet

(***************************************************************************)
(* UdpConnectionHandler: listener tasks, the session table, the response   *)
(* handler tasks                                                           *)
(***************************************************************************)
NumUdpListeners == 2    \* UDP listener tasks sharing one handler
NumUdpClients == 2      \* client addresses
UdpMaxSessions == 1     \* MAX_SESSIONS, scaled down
SessionTimeoutSecs == 1 \* SESSION_TIMEOUT_SECS, scaled down
CleanupEvery == 2       \* the 100 of `sessions.len().is_multiple_of(100)`, scaled down
MaxUdpIds == 3          \* sessions created in one run
UdpMaxTime == 2         \* the clock of the UDP handler stops here

UdpListeners == 1..NumUdpListeners
ClientAddrs == 1..NumUdpClients
SessionIds == 1..MaxUdpIds

MAX_SESSIONS == UdpMaxSessions
SESSION_TIMEOUT_SECS == SessionTimeoutSecs

\* Datagrams: a QUIC Initial whose ClientHello names a host, a long-header
\* packet without one, a short-header (1-RTT) packet, a 4-byte runt.
Datagrams ==
    {[first |-> 192, len |-> 20, sni |-> TRUE], [first |-> 224, len |-> 20, sni |-> FALSE],
     [first |-> 64, len |-> 20, sni |-> FALSE], [first |-> 192, len |-> 4, sni |-> FALSE]}

\* UdpConnectionHandler::detect_protocol: `data.len() >= 5 && (data[0] & 0x80) != 0`
udp_detect_protocol(data) ==
    IF data.len >= 5 /\ data.first >= 128 THEN "Quic" ELSE "Unknown"

NoSession == [id |-> 0, last_activity |-> 0]
NoHandler == [state |-> "none", addr |-> 0, since |-> 0]
Receiving == [pc |-> "recv", src |-> 0]
NoDatagram == [src |-> 0, had_session |-> FALSE, forwarded |-> FALSE]

\* sessions.len()
SessionsLen(sessions) == Cardinality({a \in ClientAddrs : sessions[a].id # 0})

\* cleanup_sessions: retain the sessions active less than the timeout ago.
cleanup_sessions(sessions, t) ==
    [a \in ClientAddrs |->
        IF t - sessions[a].last_activity < SESSION_TIMEOUT_SECS THEN sessions[a] ELSE NoSession]

\* The end of one turn of the loop of run: the periodic cleanup.
PeriodicCleanup(sessions, t) ==
    IF SessionsLen(sessions) % CleanupEvery = 0 THEN cleanup_sessions(sessions, t)
    ELSE sessions

\* create_session: `self.sessions.len() >= MAX_SESSIONS`
SessionLimitReached(sessions) == SessionsLen(sessions) >= MAX_SESSIONS

UdpInit ==
    /\ udSessions = [a \in ClientAddrs |-> NoSession]
    /\ udTask = [l \in UdpListeners |-> Receiving]
    /\ udHandlers = [i \in SessionIds |-> NoHandler]
    /\ udNext = 0
    /\ udLast = NoDatagram
    /\ udToClient = 0

\* A listener task receives a datagram.  Unknown protocol: dropped.  A
\* session exists: the datagram is sent to its backend and the session
\* touched.  None exists: create_session tests the limit and extracts the
\* SNI, then awaits resolve_backend.  Every turn ends with the cleanup test.
UdpDatagram(l, src, data) ==
    /\ udTask[l].pc = "recv"
    /\ LET quic == udp_detect_protocol(data) = "Quic"
           had == udSessions[src].id # 0
           creating == quic /\ ~had /\ ~SessionLimitReached(udSessions) /\ data.sni
           touched == [udSessions EXCEPT ![src].last_activity = now]
       IN /\ udLast' = [src |-> src, had_session |-> had, forwarded |-> quic /\ had]
          /\ IF creating
             THEN /\ udTask' = [udTask EXCEPT ![l] = [pc |-> "create", src |-> src]]
                  /\ UNCHANGED udSessions
             ELSE /\ udSessions' = PeriodicCleanup(IF quic /\ had THEN touched ELSE udSessions, now)
                  /\ UNCHANGED udTask
    /\ UNCHANGED <<now, udHandlers, udNext, udToClient>>
    /\ UNCHANGED notUdp

\* resolve_backend and bind have returned: the session is inserted, the
\* response handler spawned, the datagram forwarded, the turn ended.
UdpCreated(l) ==
    /\ udTask[l].pc = "create"
    /\ udNext < MaxUdpIds
    /\ LET src == udTask[l].src
           id == udNext + 1
       IN /\ udNext' = id
          /\ udSessions' = PeriodicCleanup(
                 [udSessions EXCEPT ![src] = [id |-> id, last_activity |-> now]], now)
          /\ udHandlers' = [udHandlers EXCEPT ![id] =
                              [state |-> "running", addr |-> src, since |-> now]]
          /\ udLast' = [src |-> src, had_session |-> TRUE, forwarded |-> TRUE]
    /\ udTask' = [udTask EXCEPT ![l] = Receiving]
    /\ UNCHANGED <<now, udToClient>>
    /\ UNCHANGED notUdp

\* resolve_backend or bind fails: create_session returns the error.
UdpCreateFails(l) ==
    /\ udTask[l].pc = "create"
    /\ udLast' = [src |-> udTask[l].src, had_session |-> FALSE, forwarded |-> FALSE]
    /\ udSessions' = PeriodicCleanup(udSessions, now)
    /\ udTask' = [udTask EXCEPT ![l] = Receiving]
    /\ UNCHANGED <<now, udHandlers, udNext, udToClient>>
    /\ UNCHANGED notUdp

\* The response handler of session id receives a datagram from the backend:
\* it is sent to the client, the entry under the client's address touched.
ResponseRecv(id) ==
    /\ udHandlers[id].state = "running"
    /\ LET a == udHandlers[id].addr
       IN /\ udToClient' = a
          /\ udSessions' = IF udSessions[a].id # 0
                           THEN [udSessions EXCEPT ![a].last_activity = now]
                           ELSE udSessions
    /\ udHandlers' = [udHandlers EXCEPT ![id].since = now]
    /\ UNCHANGED <<now, udTask, udNext, udLast>>
    /\ UNCHANGED notUdp

\* The response handler leaves its loop, on the timeout or on a receive
\* error, and removes the entry under its client address.
ResponseExit(id, timed_out) ==
    /\ udHandlers[id].state = "running"
    /\ timed_out => now >= udHandlers[id].since + SESSION_TIMEOUT_SECS
    /\ udHandlers' = [udHandlers EXCEPT ![id].state = "exited"]
    /\ udSessions' = [udSessions EXCEPT ![udHandlers[id].addr] = NoSession]
    /\ UNCHANGED <<now, udTask, udNext, udLast, udToClient>>
    /\ UNCHANGED notUdp

\* A second passes; the timeout of a response handler fires no later than
\* its deadline.
UdpTick ==
    /\ now < UdpMaxTime
    /\ \A id \in SessionIds :
         udHandlers[id].state = "running" => now < udHandlers[id].since + SESSION_TIMEOUT_SECS
    /\ now' = now + 1
    /\ UNCHANGED udpVars
    /\ UNCHANGED notUdp

UdpNext ==
    \/ \E l \in UdpListeners, src \in ClientAddrs, data \in Datagrams : UdpDatagram(l, src, data)
    \/ \E l \in UdpListeners : UdpCreated(l)
    \/ \E l \in UdpListeners : UdpCreateFails(l)
    \/ \E id \in SessionIds : ResponseRecv(id)
    \/ \E id \in SessionIds, timed_out \in BOOLEAN : ResponseExit(id, timed_out)
    \/ UdpTick

(***************************************************************************)
(* QpackDynamicTable: insert and clear called from several tasks            *)
(***************************************************************************)
NumQpackTasks == 2       \* tasks that share the table
MaxQpackCalls == 4       \* calls of insert and clear in one run
MaxTableCapacity == 70   \* QpackConfig.max_table_capacity, scaled down

QpackTasks == 1..NumQpackTasks

\* Header fields of 33, 34 and 35 bytes, and one larger than the table.
HeaderFields ==
    {[name |-> <<97>>, value |-> <<>>], [name |-> <<97>>, value |-> <<120>>],
     [name |-> <<97, 98>>, value |-> <<120>>],
     [name |-> <<97, 98>>, value |-> Fill(120, MaxTableCapacity)]}

\* HeaderField::size
FieldSize(field) == Len(field.name) + Len(field.value) + 32

\* current_size is a usize.  A value the wrapping arithmetic of an unchecked
\* build leaves within 2^31 below 2^64 is written as that value minus 2^64,
\* a negative number: Wrapped(n) says so, and sums and differences of the
\* representatives are the representatives of the wrapped sums and differences.
Wrapped(n) == n < 0

\* a > b on usize
UsizeGreater(a, b) ==
    IF Wrapped(a) = Wrapped(b) THEN a > b ELSE Wrapped(a)

\* The loop of insert: entries are popped from the back while the new field
\* does not fit and the table is not empty.  An addition that passes the top
\* of usize, or a subtraction that passes 0, panics when the build checks
\* overflow and wraps when it does not.
RECURSIVE Evict(_, _, _, _)
Evict(entries, size, field_size, checked) ==
    IF checked /\ Wrapped(size) /\ ~Wrapped(size + field_size)
    THEN [entries |-> entries, size |-> size, panicked |-> TRUE]
    ELSE IF UsizeGreater(size + field_size, MaxTableCapacity) /\ entries # <<>>
    THEN LET rest == SubSeq(entries, 1, Len(entries) - 1)
             evicted == FieldSize(entries[Len(entries)])
         IN IF checked /\ ~Wrapped(size) /\ Wrapped(size - evicted)
            THEN [entries |-> rest, size |-> size, panicked |-> TRUE]
            ELSE Evict(rest, size - evicted, field_size, checked)
    ELSE [entries |-> entries, size |-> size, panicked |-> FALSE]

\* A task has panicked with the locks held: they are poisoned, and every
\* later `lock().unwrap()` panics.
Poisoned == \E t \in QpackTasks : qPc[t] = "panicked"

QpackInit ==
    /\ qEntries = <<>>
    /\ current_size = 0
    /\ qPc = [t \in QpackTasks |-> "idle"]
    /\ qCalls = 0

\* insert(name, value): both locks are held from the eviction to the push.
QpackInsert(t, field, checked) ==
    /\ qPc[t] = "idle"
    /\ ~Poisoned
    /\ qCalls < MaxQpackCalls
    /\ qCalls' = qCalls + 1
    /\ LET e == Evict(qEntries, current_size, FieldSize(field), checked)
           fits == FieldSize(field) <= MaxTableCapacity
           overflows == checked /\ Wrapped(e.size) /\ ~Wrapped(e.size + FieldSize(field))
       IN IF e.panicked \/ (fits /\ overflows)
          THEN /\ qEntries' = IF e.panicked THEN e.entries ELSE <<field>> \o e.entries
               /\ current_size' = e.size
               /\ qPc' = [qPc EXCEPT ![t] = "panicked"]
          ELSE /\ qEntries' = IF fits THEN <<field>> \o e.entries ELSE e.entries
               /\ current_size' = IF fits THEN e.size + FieldSize(field) ELSE e.size
               /\ UNCHANGED qPc
    /\ UNCHANGED notQpack

\* clear(), first statement: the entries are cleared under their lock, which
\* is released at the end of the statement.
QpackClearEntries(t) ==
    /\ qPc[t] = "idle"
    /\ ~Poisoned
    /\ qCalls < MaxQpackCalls
    /\ qCalls' = qCalls + 1
    /\ qEntries' = <<>>
    /\ qPc' = [qPc EXCEPT ![t] = "clear_size"]
    /\ UNCHANGED current_size
    /\ UNCHANGED notQpack

\* clear(), second statement: current_size is set to 0 under its own lock.
QpackClearSize(t) ==
    /\ qPc[t] = "clear_size"
    /\ ~Poisoned
    /\ current_size' = 0
    /\ qPc' = [qPc EXCEPT ![t] = "idle"]
    /\ UNCHANGED <<qEntries, qCalls>>
    /\ UNCHANGED notQpack

QpackNext ==
    \/ \E t \in QpackTasks, field \in HeaderFields, checked \in BOOLEAN :
         QpackInsert(t, field, checked)
    \/ \E t \in QpackTasks : QpackClearEntries(t)
    \/ \E t \in QpackTasks : QpackClearSize(t)

(***************************************************************************)
(* The classification peek of process_connection                           *)
(*                                                                         *)
(* A client sends the opening bytes of its stream; TCP delivers them in    *)
(* segments.  process_connection peeks once, at whatever has arrived, and  *)
(* classifies what the peek returned.                                      *)
(***************************************************************************)
\* "Host: a.b\r\n\r\n"
HostHeader == <<72, 111, 115, 116, 58, 32, 97, 46, 98, 13, 10, 13, 10>>

\* What clients send first, PEEK_SIZE bytes or more of it: the preface and a
\* SETTINGS frame header, a request of either HTTP/1 version, a TLS
\* handshake record, an SSH banner, other bytes.
FirstBytes ==
    {HTTP2_PREFACE \o <<0, 0, 0, 4, 0>>,
     <<71, 69, 84, 32, 47, 32>> \o Http10Text \o <<13, 10>> \o HostHeader,
     <<71, 69, 84, 32, 47, 32>> \o Http11Text \o <<13, 10>> \o HostHeader,
     <<22, 3, 1, 0, 20>> \o [i \in 1..20 |-> 0],
     SSH_VERSION_PREFIX \o [i \in 1..20 |-> 48] \o <<10>>,
     [i \in 1..PEEK_SIZE |-> 0]}

\* peek_bytes: one `client.peek` into a buffer of `size` bytes, truncated to
\* the count it returned; peek returns what the socket holds, at most `size`.
peek_bytes(received, size) == Take(received, size)

PeekInit ==
    /\ pkStream \in FirstBytes
    /\ pkArrived = 0
    /\ pkBuf = <<>>
    /\ pkProtocol = "none"

\* A segment of n more bytes of the client's stream arrives.
PeekSegment(n) ==
    /\ pkArrived + n <= Len(pkStream)
    /\ pkArrived' = pkArrived + n
    /\ UNCHANGED <<pkStream, pkBuf, pkProtocol>>
    /\ UNCHANGED notPeek

\* process_connection: peek_bytes returns as soon as the socket holds any
\* byte, and detect_protocol classifies what it returned.
ProcessConnectionPeek ==
    /\ pkProtocol = "none"
    /\ pkArrived > 0
    /\ LET peek_buf == peek_bytes(Take(pkStream, pkArrived), PEEK_SIZE)
       IN /\ pkBuf' = peek_buf
          /\ pkProtocol' = detect_protocol(peek_buf)
    /\ UNCHANGED <<pkStream, pkArrived>>
    /\ UNCHANGED notPeek

\* The client_hello timeout elapses with nothing received: peek_bytes fails.
PeekTimeout ==
    /\ pkProtocol = "none"
    /\ pkArrived = 0
    /\ pkProtocol' = "error"
    /\ UNCHANGED <<pkStream, pkArrived, pkBuf>>
    /\ UNCHANGED notPeek

PeekNext ==
    \/ \E n \in 1..PEEK_SIZE : PeekSegment(n)
    \/ ProcessConnectionPeek
    \/ PeekTimeout

(***************************************************************************)
(* Specifications: one component runs, the others stay as constructed.     *)
(***************************************************************************)
ProxyFrozen ==
    /\ cfg_max_connections = 1 /\ connection_semaphore = 1 /\ mainPc = "select"
    /\ active_connections = 0 /\ connection_handles = {}
    /\ taskState = [t \in ConnIds |-> "none"] /\ nextConn = 0
    /\ lastAccept = [listener |-> 0, result |-> "none", after_failure |-> FALSE]
    /\ shutdownKind = "none" /\ drainStart = -1 /\ returnedAt = -1

PoolFrozen ==
    /\ pool_config = [enabled |-> TRUE, max_per_host |-> 1, connection_ttl |-> 1,
                      idle_timeout |-> 1, keep_alive_enabled |-> TRUE,
                      max_requests_per_connection |-> 1]
    /\ pools = [h \in Hosts |-> <<>>] /\ poolKeys = {} /\ held = Streams
    /\ closed = {} /\ lastGet = NoGet /\ lastPut = "none"
    /\ pool_metrics = NoMetrics

SpliceFrozen ==
    /\ splicePath = "tls" /\ spliceMetrics = FALSE
    /\ dirPc = [d \in Dirs |-> "read"] /\ peerLeft = [d \in Dirs |-> 0]
    /\ inflight = [d \in Dirs |-> 0] /\ peerFin = [d \in Dirs |-> FALSE]
    /\ readStart = [d \in Dirs |-> 0] /\ carried = [d \in Dirs |-> 0]
    /\ writeShut = [d \in Dirs |-> FALSE] /\ spliceResult = "running"

TlsFrozen ==
    /\ tStream = <<>> /\ tSent = 0 /\ tFin = FALSE /\ tSock = <<>> /\ tBuf = <<>>
    /\ record = <<>> /\ tPc = "peek" /\ tBackend = <<>>

HandlerFrozen ==
    /\ hProto = "unknown" /\ hHost = <<"b">> /\ hAllowlist = <<>>
    /\ hHasAllowlist = FALSE /\ hHasPool = FALSE /\ hPc = "peek"
    /\ hStageStart = 0 /\ hDialStart = -1 /\ hReads = 0 /\ hBackend = <<>>
    /\ hMetrics = [connections_total |-> "none", errors_total |-> 0]

LabelsFrozen ==
    /\ cache = [k \in LabelKeys |-> NoArc] /\ shardLock = [i \in 1..NumShards |-> 0]
    /\ lcPc = [t \in LabelTasks |-> "idle"] /\ lcKey = [t \in LabelTasks |-> <<"a", "tls">>]
    /\ lcVacant = [t \in LabelTasks |-> FALSE] /\ lcConstructed = [k \in LabelKeys |-> 0]
    /\ lcReturned = [k \in LabelKeys |-> {}] /\ lcCalls = 0

SniFrozen ==
    /\ sniRecord = [bytes |-> <<>>]
    /\ sniResult = NotParsed
    /\ alpnResult = NotParsed

DetectFrozen ==
    /\ dpBuf = <<>>
    /\ dpResult = "none"

AllowFrozen ==
    /\ alHost = <<>>
    /\ alList = <<>>
    /\ alMatches = <<>>
    /\ alAllowed = "none"

HttpFrozen ==
    /\ hxStream = [bytes |-> <<>>]
    /\ hxBuffer = <<>>
    /\ hxTotalRead = 0
    /\ hxEnd = 0
    /\ hxResult = NoHostResult

LimitFrozen ==
    /\ hlBlock = 0
    /\ hlTotalRead = 0
    /\ hlReads = 0
    /\ hlResult = "none"

SweepFrozen ==
    /\ swOwner = "run_proxy"
    /\ swEnabled = FALSE
    /\ swInterval = 1
    /\ swPc = "select"
    /\ swTask = "none"
    /\ swNextTick = 0
    /\ swLastCleanup = 0
    /\ swCleanups = 0

H2cFrozen ==
    /\ h2Stream = [frame |-> <<>>, later |-> <<>>]
    /\ h2Sent = 0 /\ h2Fin = FALSE /\ h2Sock = <<>> /\ h2Pc = "peek"
    /\ h2Read = [preface_buffer |-> <<>>, frame_header |-> <<>>, payload |-> <<>>]
    /\ h2Host = <<>> /\ h2Target = <<>> /\ h2Backend = <<>>

ReuseFrozen ==
    /\ kaConfig = [enabled |-> FALSE] /\ kaBucket = <<>> /\ kaHeld = {}
    /\ kaVended = <<>> /\ kaEvicted = {}

UdpFrozen ==
    /\ udSessions = <<>> /\ udTask = <<>> /\ udHandlers = <<>>
    /\ udNext = 0 /\ udLast = <<>> /\ udToClient = 0

QpackFrozen ==
    /\ qEntries = <<>> /\ current_size = 0 /\ qPc = <<>> /\ qCalls = 0

PeekFrozen ==
    /\ pkStream = <<>>
    /\ pkArrived = 0
    /\ pkBuf = <<>>
    /\ pkProtocol = "none"

InitProxy ==
    /\ now = 0
    /\ ProxyInit
    /\ PoolFrozen
    /\ SpliceFrozen
    /\ HandlerFrozen
    /\ TlsFrozen
    /\ LabelsFrozen
    /\ SniFrozen
    /\ DetectFrozen
    /\ AllowFrozen
    /\ HttpFrozen
    /\ LimitFrozen
    /\ SweepFrozen
    /\ H2cFrozen
    /\ ReuseFrozen
    /\ UdpFrozen
    /\ QpackFrozen
    /\ PeekFrozen

InitPool ==
    /\ now = 0
    /\ PoolInit
    /\ ProxyFrozen
    /\ SpliceFrozen
    /\ HandlerFrozen
    /\ TlsFrozen
    /\ LabelsFrozen
    /\ SniFrozen
    /\ DetectFrozen
    /\ AllowFrozen
    /\ HttpFrozen
    /\ LimitFrozen
    /\ SweepFrozen
    /\ H2cFrozen
    /\ ReuseFrozen
    /\ UdpFrozen
    /\ QpackFrozen
    /\ PeekFrozen

InitSplice ==
    /\ now = 0
    /\ SpliceInit
    /\ ProxyFrozen
    /\ PoolFrozen
    /\ HandlerFrozen
    /\ TlsFrozen
    /\ LabelsFrozen
    /\ SniFrozen
    /\ DetectFrozen
    /\ AllowFrozen
    /\ HttpFrozen
    /\ LimitFrozen
    /\ SweepFrozen
    /\ H2cFrozen
    /\ ReuseFrozen
    /\ UdpFrozen
    /\ QpackFrozen
    /\ PeekFrozen

InitHandler ==
    /\ now = 0
    /\ HandlerInit
    /\ ProxyFrozen
    /\ PoolFrozen
    /\ SpliceFrozen
    /\ TlsFrozen
    /\ LabelsFrozen
    /\ SniFrozen
    /\ DetectFrozen
    /\ AllowFrozen
    /\ HttpFrozen
    /\ LimitFrozen
    /\ SweepFrozen
    /\ H2cFrozen
    /\ ReuseFrozen
    /\ UdpFrozen
    /\ QpackFrozen
    /\ PeekFrozen

SpecProxy == InitProxy /\ [][ProxyNext]_vars
SpecPool == InitPool /\ [][PoolNext]_vars
SpecSplice == InitSplice /\ [][SpliceNext]_vars

InitTls ==
    /\ now = 0
    /\ TlsInit
    /\ ProxyFrozen
    /\ PoolFrozen
    /\ SpliceFrozen
    /\ HandlerFrozen
    /\ LabelsFrozen
    /\ SniFrozen
    /\ DetectFrozen
    /\ AllowFrozen
    /\ HttpFrozen
    /\ LimitFrozen
    /\ SweepFrozen
    /\ H2cFrozen
    /\ ReuseFrozen
    /\ UdpFrozen
    /\ QpackFrozen
    /\ PeekFrozen

SpecHandler == InitHandler /\ [][HandlerNext]_vars
SpecTls == InitTls /\ [][TlsNext]_vars

InitLabels ==
    /\ now = 0
    /\ LabelInit
    /\ ProxyFrozen
    /\ PoolFrozen
    /\ SpliceFrozen
    /\ TlsFrozen
    /\ HandlerFrozen
    /\ SniFrozen
    /\ DetectFrozen
    /\ AllowFrozen
    /\ HttpFrozen
    /\ LimitFrozen
    /\ SweepFrozen
    /\ H2cFrozen
    /\ ReuseFrozen
    /\ UdpFrozen
    /\ QpackFrozen
    /\ PeekFrozen

SpecLabels == InitLabels /\ [][LabelNext]_vars

InitSni ==
    /\ now = 0
    /\ SniInit
    /\ ProxyFrozen
    /\ PoolFrozen
    /\ SpliceFrozen
    /\ TlsFrozen
    /\ HandlerFrozen
    /\ LabelsFrozen
    /\ DetectFrozen
    /\ AllowFrozen
    /\ HttpFrozen
    /\ LimitFrozen
    /\ SweepFrozen
    /\ H2cFrozen
    /\ ReuseFrozen
    /\ UdpFrozen
    /\ QpackFrozen
    /\ PeekFrozen

SpecSni == InitSni /\ [][SniNext]_vars

InitDetect ==
    /\ now = 0
    /\ DetectInit
    /\ ProxyFrozen
    /\ PoolFrozen
    /\ SpliceFrozen
    /\ TlsFrozen
    /\ HandlerFrozen
    /\ LabelsFrozen
    /\ SniFrozen
    /\ AllowFrozen
    /\ HttpFrozen
    /\ LimitFrozen
    /\ SweepFrozen
    /\ H2cFrozen
    /\ ReuseFrozen
    /\ UdpFrozen
    /\ QpackFrozen
    /\ PeekFrozen

SpecDetect == InitDetect /\ [][DetectNext]_vars

InitAllow ==
    /\ now = 0
    /\ AllowInit
    /\ ProxyFrozen
    /\ PoolFrozen
    /\ SpliceFrozen
    /\ TlsFrozen
    /\ HandlerFrozen
    /\ LabelsFrozen
    /\ SniFrozen
    /\ DetectFrozen
    /\ HttpFrozen
    /\ LimitFrozen
    /\ SweepFrozen
    /\ H2cFrozen
    /\ ReuseFrozen
    /\ UdpFrozen
    /\ QpackFrozen
    /\ PeekFrozen

SpecAllow == InitAllow /\ [][AllowNext]_vars

InitHttp ==
    /\ now = 0
    /\ HttpInit
    /\ ProxyFrozen
    /\ PoolFrozen
    /\ SpliceFrozen
    /\ TlsFrozen
    /\ HandlerFrozen
    /\ LabelsFrozen
    /\ SniFrozen
    /\ DetectFrozen
    /\ AllowFrozen
    /\ LimitFrozen
    /\ SweepFrozen
    /\ H2cFrozen
    /\ ReuseFrozen
    /\ UdpFrozen
    /\ QpackFrozen
    /\ PeekFrozen

SpecHttp == InitHttp /\ [][HttpNext]_vars

InitLimit ==
    /\ now = 0
    /\ LimitInit
    /\ ProxyFrozen
    /\ PoolFrozen
    /\ SpliceFrozen
    /\ TlsFrozen
    /\ HandlerFrozen
    /\ LabelsFrozen
    /\ SniFrozen
    /\ DetectFrozen
    /\ AllowFrozen
    /\ HttpFrozen
    /\ SweepFrozen
    /\ H2cFrozen
    /\ ReuseFrozen
    /\ UdpFrozen
    /\ QpackFrozen
    /\ PeekFrozen

SpecLimit == InitLimit /\ [][LimitNext]_vars

InitSweep ==
    /\ now = 0
    /\ SweepInit
    /\ ProxyFrozen
    /\ PoolFrozen
    /\ SpliceFrozen
    /\ TlsFrozen
    /\ HandlerFrozen
    /\ LabelsFrozen
    /\ SniFrozen
    /\ DetectFrozen
    /\ AllowFrozen
    /\ HttpFrozen
    /\ LimitFrozen
    /\ H2cFrozen
    /\ ReuseFrozen
    /\ UdpFrozen
    /\ QpackFrozen
    /\ PeekFrozen

SpecSweep == InitSweep /\ [][SweepNext]_vars

InitH2c ==
    /\ now = 0
    /\ H2cInit
    /\ ProxyFrozen
    /\ PoolFrozen
    /\ SpliceFrozen
    /\ TlsFrozen
    /\ HandlerFrozen
    /\ LabelsFrozen
    /\ SniFrozen
    /\ DetectFrozen
    /\ AllowFrozen
    /\ HttpFrozen
    /\ LimitFrozen
    /\ SweepFrozen
    /\ ReuseFrozen
    /\ UdpFrozen
    /\ QpackFrozen
    /\ PeekFrozen

SpecH2c == InitH2c /\ [][H2cNext]_vars

InitReuse ==
    /\ now = 0
    /\ ReuseInit
    /\ ProxyFrozen
    /\ PoolFrozen
    /\ SpliceFrozen
    /\ TlsFrozen
    /\ HandlerFrozen
    /\ LabelsFrozen
    /\ SniFrozen
    /\ DetectFrozen
    /\ AllowFrozen
    /\ HttpFrozen
    /\ LimitFrozen
    /\ SweepFrozen
    /\ H2cFrozen
    /\ UdpFrozen
    /\ QpackFrozen
    /\ PeekFrozen

SpecReuse == InitReuse /\ [][ReuseNext]_vars

InitUdp ==
    /\ now = 0
    /\ UdpInit
    /\ ProxyFrozen
    /\ PoolFrozen
    /\ SpliceFrozen
    /\ TlsFrozen
    /\ HandlerFrozen
    /\ LabelsFrozen
    /\ SniFrozen
    /\ DetectFrozen
    /\ AllowFrozen
    /\ HttpFrozen
    /\ LimitFrozen
    /\ SweepFrozen
    /\ H2cFrozen
    /\ ReuseFrozen
    /\ QpackFrozen
    /\ PeekFrozen

SpecUdp == InitUdp /\ [][UdpNext]_vars

InitQpack ==
    /\ now = 0
    /\ QpackInit
    /\ ProxyFrozen
    /\ PoolFrozen
    /\ SpliceFrozen
    /\ TlsFrozen
    /\ HandlerFrozen
    /\ LabelsFrozen
    /\ SniFrozen
    /\ DetectFrozen
    /\ AllowFrozen
    /\ HttpFrozen
    /\ LimitFrozen
    /\ SweepFrozen
    /\ H2cFrozen
    /\ ReuseFrozen
    /\ UdpFrozen
    /\ PeekFrozen

SpecQpack == InitQpack /\ [][QpackNext]_vars

InitPeek ==
    /\ now = 0
    /\ PeekInit
    /\ ProxyFrozen
    /\ PoolFrozen
    /\ SpliceFrozen
    /\ TlsFrozen
    /\ HandlerFrozen
    /\ LabelsFrozen
    /\ SniFrozen
    /\ DetectFrozen
    /\ AllowFrozen
    /\ HttpFrozen
    /\ LimitFrozen
    /\ SweepFrozen
    /\ H2cFrozen
    /\ ReuseFrozen
    /\ UdpFrozen
    /\ QpackFrozen

SpecPeek == InitPeek /\ [][PeekNext]_vars

(***************************************************************************)
(* Claims about run_proxy                                                  *)
(***************************************************************************)

\* C1: at every instant the number of handler tasks spawned and not yet
\* finished is at most max_connections.
C1_OutstandingBounded == Cardinality(Outstanding) <= cfg_max_connections

\* C1 witness: the cap is reached and a further connection has been refused.
C1_Witness ==
    /\ Cardinality(Outstanding) = cfg_max_connections
    /\ cfg_max_connections >= 2
    /\ \E t \in ConnIds : taskState[t] = "refused"

\* C2: after the shutdown signal run_proxy returns within shutdown_timeout
\* seconds: it is never still draining later than that, and when it has
\* returned it did so no later than that.
C2_ShutdownBounded ==
    /\ mainPc = "drain" => now - drainStart <= shutdown_timeout
    /\ mainPc = "returned" => returnedAt - drainStart <= shutdown_timeout

\* C2 witness: run_proxy returned at the deadline with handlers still running.
C2_Witness ==
    /\ mainPc = "returned"
    /\ returnedAt - drainStart = shutdown_timeout
    /\ Cardinality(Outstanding) >= 2

\* C11: no per-connection failure and no accept() error ends or blocks the
\* accept loop: run_proxy never fails, it leaves the loop only on a shutdown
\* signal, and while it is in the loop the next connection can be accepted.
C11_LoopSurvives ==
    /\ mainPc \in {"select", "drain", "returned"}
    /\ mainPc # "select" => shutdownKind # "none"
    /\ (mainPc = "select" /\ nextConn < MaxConns) =>
          ENABLED (\E l \in Listeners : AcceptSpawn(l) \/ AcceptRefuse(l))

\* C11 witness: one handler ended in an error, one panicked, and a later
\* connection was accepted and is being handled.
C11_Witness ==
    /\ mainPc = "select"
    /\ taskState[1] = "err"
    /\ taskState[2] = "panic"
    /\ taskState[3] = "running"
    /\ lastAccept.result = "spawned" /\ lastAccept.after_failure

\* C12: every admitted handler gives its permit back when its task ends,
\* however it ends: the free permits are max_connections less the handlers
\* still running, so with none running all permits are back.
C12_PermitsReturned ==
    connection_semaphore = cfg_max_connections - Cardinality(Outstanding)

\* C12 witness: with a single permit, a handler panicked, the next one failed,
\* and a third connection was admitted.
C12_Witness ==
    /\ cfg_max_connections = 1
    /\ taskState[1] = "panic"
    /\ taskState[2] = "err"
    /\ taskState[3] = "running"

\* C13: run_proxy does not return before shutdown_timeout seconds of drain
\* have elapsed while a handler task is still running.
C13_DrainWaits ==
    (mainPc = "returned" /\ returnedAt - drainStart < shutdown_timeout)
    => Outstanding = {}

\* C13 witness: the drain waited for running handlers and returned, before the
\* deadline, once the last of them had ended.
C13_Witness ==
    /\ mainPc = "returned"
    /\ returnedAt > drainStart
    /\ returnedAt - drainStart < shutdown_timeout
    /\ nextConn >= 2
    /\ Outstanding = {}

(***************************************************************************)
(* Claims about the pool                                                   *)
(***************************************************************************)

\* C3: get never returns a stream whose entry is older than connection_ttl
\* or has been idle longer than idle_timeout at the instant of the get.
C3_NoExpiredVend ==
    lastGet.stream # None =>
        /\ lastGet.age <= pool_config.connection_ttl
        /\ lastGet.idle_for <= pool_config.idle_timeout

\* C3 witness: a get vended an entry exactly as old as the TTL allows.
C3_Witness ==
    /\ lastGet.stream # None
    /\ lastGet.age > 0
    /\ lastGet.age = pool_config.connection_ttl
    /\ lastGet.idle_for < pool_config.idle_timeout

\* The streams parked in a bucket.
Parked(bucket) == {bucket[i].stream : i \in 1..Len(bucket)}

\* C14: a parked stream is vended at most once.  No stream sits twice in the
\* buckets or is parked while a caller holds it, and a get that returns a
\* stream hands over one that nobody held and leaves it in no bucket, so the
\* next get cannot return it again unless it is put again.
C14_VendedOnce ==
    /\ [](\A h \in Hosts :
            /\ Cardinality(Parked(pools[h])) = Len(pools[h])
            /\ Parked(pools[h]) \cap (held \cup closed) = {}
            /\ \A g \in Hosts \ {h} : Parked(pools[h]) \cap Parked(pools[g]) = {})
    /\ [][\A h \in Hosts :
            (Get(h) /\ lastGet'.stream # None) =>
               /\ lastGet'.stream \in Parked(pools[h])
               /\ lastGet'.stream \notin held
               /\ lastGet'.stream \in held'
               /\ \A g \in Hosts : lastGet'.stream \notin Parked(pools'[g])]_vars

\* C14 witness: a get has returned a stream, which its caller holds, while
\* another stream is still parked for the same host.
C14_Witness ==
    /\ lastGet.stream # None
    /\ lastGet.stream \in held
    /\ Len(pools[lastGet.host]) >= 1

\* C15: no bucket ever holds more than max_per_host entries, and a put or
\* put_with_http_info on a disabled pool or on a full bucket returns false and
\* leaves every bucket as it was.
C15_BucketBounded ==
    /\ [](\A h \in Hosts : Len(pools[h]) <= pool_config.max_per_host)
    /\ [][\A h \in Hosts, s \in Streams :
            ((Put(h, s) \/ \E v \in {"Http10", "Http11", "Http2"}, ka \in BOOLEAN :
                              PutWithHttpInfo(h, s, v, ka))
             /\ (~pool_config.enabled \/ Len(pools[h]) >= pool_config.max_per_host))
            => (lastPut' = "false" /\ pools' = pools)]_vars

\* C15 witness: a bucket is at max_per_host and the last put was refused.
C15_Witness ==
    /\ pool_config.enabled
    /\ lastPut = "false"
    /\ \E h \in Hosts : Len(pools[h]) = pool_config.max_per_host
    /\ closed # {}

(***************************************************************************)
(* Claims about the splice                                                 *)
(***************************************************************************)

\* C6: in every spliced connection, once a direction has read EOF and ended,
\* the write side of the opposite socket has been shut down, and the other
\* direction has not been stopped by that: it is still copying or ended itself.
C6_HalfClose ==
    \A d \in Dirs :
        dirPc[d] = "done" =>
            /\ writeShut[d]
            /\ dirPc[Other(d)] \in {"read", "write", "shutdown"} => spliceResult = "running"

\* C7: in every spliced connection and direction, a read never waits longer
\* than the idle timeout: a silent connection is torn down.
C7_IdleBounded ==
    \A d \in Dirs :
        (spliceResult = "running" /\ dirPc[d] = "read") =>
            now - readStart[d] <= idle_timeout

\* C10: copy_bidirectional_timeout returns Ok only when both directions read
\* EOF and shut down their write halves; when a direction fails it returns the
\* error at once and the other direction is cancelled, not awaited.
C10_TryJoin ==
    Splicer(splicePath, spliceMetrics) = "copy_bidirectional_timeout" =>
        /\ spliceResult = "ok" =>
              \A d \in Dirs : dirPc[d] = "done" /\ writeShut[d] /\ peerFin[d]
                                /\ inflight[d] = 0
        /\ (\E d \in Dirs : dirPc[d] = "failed") =>
              /\ spliceResult = "err"
              /\ \A d \in Dirs : dirPc[d] \in {"failed", "cancelled", "done"}

\* C10 witness: one direction ended at EOF and shut down, later the other hit
\* its idle timeout, and the join returned the error.
C10_Witness ==
    /\ Splicer(splicePath, spliceMetrics) = "copy_bidirectional_timeout"
    /\ spliceResult = "err"
    /\ \E d \in Dirs : dirPc[d] = "failed" /\ dirPc[Other(d)] = "done"
                        /\ now >= readStart[d] + idle_timeout

(***************************************************************************)
(* Claims about the handler                                                *)
(***************************************************************************)

\* C5: with an allowlist configured, a TLS, HTTP/1.x or HTTP/2-cleartext
\* connection whose extracted hostname matches no pattern causes no backend
\* activity: no pool lookup, no resolution, no dial, no forwarded byte.
C5_RejectedNoBackend ==
    (/\ hHasAllowlist
     /\ hProto \in {"tls", "http1", "h2c"}
     /\ ~is_host_allowed(hHost, hAllowlist))
    => (hBackend = <<>> /\ hPc \notin {"lookup", "connect", "http_connect",
                                       "write_initial", "splice"})

\* C5 witness: a host that the allowlist does not admit was extracted and the
\* handler ended without touching a backend.
C5_Witness ==
    /\ hHasAllowlist
    /\ hProto = "h2c" /\ hHasPool
    /\ ~is_host_allowed(hHost, hAllowlist)
    /\ hPc = "done_ok"
    /\ hBackend = <<>>
    /\ now > 0

\* C23: in the HTTP/1.x path the port suffix is parsed out of the Host value
\* before the allowlist check: with an allowlist configured, a request with
\* Host h:p goes on to the backend exactly when h, without the port, is
\* admitted by the allowlist.
C23_PortStrippedBeforeAllowlist ==
    [][(HttpReadHost /\ hHasAllowlist) =>
          (hPc' = "http_connect" <=> is_host_allowed(HostnameOf(hHost), hAllowlist))]_vars

\* C8: the time a handler spends on the peek plus the read of the ClientHello
\* record or of the HTTP header block is at most the client_hello timeout.
C8_ClassifyBounded ==
    hPc \in {"peek", "tls_header", "tls_body", "http_read"} => now <= client_hello

\* C9: on every path that dials, resolution plus connect take at most the
\* connect timeout.
C9_DialBounded ==
    hPc \in {"lookup", "connect", "http_connect"} => now - hDialStart <= connect

(***************************************************************************)
(* Claims about the bytes of a TLS connection                              *)
(***************************************************************************)

\* C4: on the TLS path, however the client's bytes are split into segments,
\* what is written to the backend is what the client sent: the ClientHello
\* record first, then every later byte in order, none dropped, duplicated or
\* reordered.
C4_BytesPreserved ==
    /\ IsPrefix(tBackend, tStream)
    /\ tPc = "done_ok" => tBackend = Take(tStream, tSent)

(***************************************************************************)
(* Claims about the label cache                                            *)
(***************************************************************************)

\* C16: for every (host, protocol) pair, however the calls of get_or_insert
\* interleave, at most one label string is ever constructed, exactly one once
\* a caller has been served, and all callers receive the same Arc, holding
\* "host-protocol".
C16_LabelOnce ==
    \A k \in LabelKeys :
        /\ lcConstructed[k] <= 1
        /\ Cardinality(lcReturned[k]) <= 1
        /\ lcReturned[k] # {} =>
              /\ lcConstructed[k] = 1
              /\ lcReturned[k] = {[serial |-> 1, label |-> FormatLabel(k[1], k[2])]}
              /\ cache[k] \in lcReturned[k]

\* C16 witness: two tasks call for the same pair at the same time, one holds
\* the shard having found the entry vacant, the other waits, and a third call
\* for that pair has already been served.
C16_Witness ==
    \E k \in LabelKeys :
        /\ lcKey[1] = k /\ lcKey[2] = k
        /\ lcPc[1] = "locked" /\ lcPc[2] = "entry"
        /\ lcReturned[k] # {}

(***************************************************************************)
(* Claims about the ClientHello parsers                                    *)
(***************************************************************************)

\* C17: extract_sni returns a hostname exactly for the well-formed
\* ClientHello records that carry a server_name entry of type 0 with a
\* non-empty name, and returns an error for every other input.  A record
\* is well-formed when it was laid out from its description without a
\* defect; its name is the first type-0 entry of the description.  Records
\* whose only defect is a declared length one too small are left aside:
\* the test vectors of the source are such records.
C17_HostnameIffWellFormed ==
    LET has_name == /\ sniRecord.host # <<>>
                    /\ sniRecord.host[1] # <<>>
                    /\ from_utf8_ok(sniRecord.host[1])
    IN (/\ sniRecord.described
        /\ sniRecord.defect \notin {"record-", "handshake-", "extensions-"}
        /\ sniResult.kind # "NotParsed") =>
          /\ sniResult.kind = "Ok" <=> (sniRecord.defect = "none" /\ has_name)
          /\ sniResult.kind = "Ok" => sniResult.name = sniRecord.host[1]

\* C18: neither extract_sni nor extract_alpn reads the record at an index
\* at or beyond its length: the largest index each of them read is below
\* the length of the bytes it was given.
C18_NoReadPastEnd ==
    /\ sniResult.hi < Len(sniRecord.bytes)
    /\ alpnResult.hi < Len(sniRecord.bytes)

\* Both parsers ran on a record cut inside its extensions, read up to its
\* last byte, and stopped there.
C18_Witness ==
    /\ sniRecord.defect = "recut"
    /\ Len(sniRecord.bytes) > 5 + 4 + 2 + 32 + 8
    /\ sniResult = SniErr("MessageTruncated", Len(sniRecord.bytes) - 1)
    /\ alpnResult = AlpnNone(Len(sniRecord.bytes) - 1)

\* C19: when an extension of the ClientHello, SNI or not, declares a length
\* that runs past the end of the extensions region (in a record that is
\* otherwise laid out correctly), extract_sni fails with MessageTruncated.
C19_OverrunTruncated ==
    (sniRecord.overrun /\ sniResult.kind # "NotParsed") =>
        sniResult = SniErr("MessageTruncated", sniResult.hi)

\* C20 (as stated): extract_sni reports errors in this order: fewer than 5
\* bytes is MessageTruncated; else byte 0 other than 0x16 is
\* InvalidHandshakeType; else byte 1 other than 0x03 is InvalidTlsVersion;
\* else fewer than 5 + record_length bytes is MessageTruncated; else byte 5
\* other than 0x01 is InvalidClientHello; and a well-formed ClientHello
\* with no SNI extension is InvalidSniFormat.
C20_CheckOrder ==
    LET b == sniRecord.bytes
        n == Len(b)
        expected ==
            IF n < 5 THEN "MessageTruncated"
            ELSE IF b[1] # TLS_HANDSHAKE THEN "InvalidHandshakeType"
            ELSE IF b[2] # TLS_VERSION_MAJOR THEN "InvalidTlsVersion"
            ELSE IF n < 5 + b[4] * 256 + b[5] THEN "MessageTruncated"
            ELSE IF n >= 6 /\ b[6] # CLIENT_HELLO THEN "InvalidClientHello"
            ELSE IF sniRecord.defect = "none" /\ ~sniRecord.has_sni_ext
            THEN "InvalidSniFormat"
            ELSE ""
    IN (sniResult.kind # "NotParsed" /\ expected # "") =>
          sniResult = SniErr(expected, sniResult.hi)

\* C20 (amended): the same order, with one more check between the record
\* length and byte 5: a record of fewer than 9 bytes, too short to hold
\* the 4-byte handshake header, is MessageTruncated whatever byte 5 is.
C20_CheckOrderWithHeader ==
    LET b == sniRecord.bytes
        n == Len(b)
        expected ==
            IF n < 5 THEN "MessageTruncated"
            ELSE IF b[1] # TLS_HANDSHAKE THEN "InvalidHandshakeType"
            ELSE IF b[2] # TLS_VERSION_MAJOR THEN "InvalidTlsVersion"
            ELSE IF n < 5 + b[4] * 256 + b[5] THEN "MessageTruncated"
            ELSE IF n < 9 THEN "MessageTruncated"
            ELSE IF b[6] # CLIENT_HELLO THEN "InvalidClientHello"
            ELSE IF sniRecord.defect = "none" /\ ~sniRecord.has_sni_ext
            THEN "InvalidSniFormat"
            ELSE ""
    IN (sniResult.kind # "NotParsed" /\ expected # "") =>
          sniResult = SniErr(expected, sniResult.hi)

\* A complete 6-byte record whose only handshake byte is 0x02 was parsed
\* and reported as truncated.
C20_Witness ==
    /\ sniRecord.bytes = <<TLS_HANDSHAKE, TLS_VERSION_MAJOR, 1, 0, 1, 2>>
    /\ sniResult = SniErr("MessageTruncated", 4)

\* C21: parsing the ClientHello built from a hostname d and a non-empty
\* ALPN list L yields SNI d and ALPN the first element of L; with several
\* server_name entries or several protocols the first one is returned.
\* d is a non-empty UTF-8 name and the first protocol is UTF-8.
C21_BuildThenParse ==
    (/\ sniRecord.described /\ sniRecord.defect = "none"
     /\ sniRecord.host # <<>> /\ sniRecord.alpn # <<>>) =>
        LET d == sniRecord.host[1]
            p == sniRecord.alpn[1]
        IN /\ (sniResult.kind # "NotParsed" /\ d # <<>> /\ from_utf8_ok(d)) =>
                (sniResult.kind = "Ok" /\ sniResult.name = d)
           /\ (alpnResult.kind # "NotParsed" /\ from_utf8_ok(p)) =>
                (alpnResult.kind = "Some" /\ alpnResult.name = p)

\* A ClientHello with two type-0 names and two protocols was parsed by both
\* functions, and each returned the first one.
C21_Witness ==
    /\ sniRecord.defect = "none" /\ sniRecord.several
    /\ sniRecord.host = <<HostA>> /\ sniRecord.alpn = <<ProtocolH2>>
    /\ sniResult.kind = "Ok" /\ sniResult.name = HostA
    /\ alpnResult.kind = "Some" /\ alpnResult.name = ProtocolH2

(***************************************************************************)
(* Claims about the protocol classifier                                    *)
(***************************************************************************)

\* C22 (as stated): detect_protocol answers for every buffer, in this order:
\* the 24-byte preface gives Http2; else a method and a space gives Http10
\* if the first line, up to the first LF, contains HTTP/1.0 and Http11 in
\* every other case; else SSH- gives Ssh; else first byte 0x16 gives Tls;
\* else Unknown.
C22_DetectOrder ==
    LET b == dpBuf
        line == SubSeq(b, 1, LfPosition(b) - 1)
        expected ==
            IF IsPrefix(HTTP2_PREFACE, b) THEN "Http2"
            ELSE IF \E k \in 1..Len(HTTP_METHODS) : IsPrefix(HTTP_METHODS[k], b)
            THEN IF LfPosition(b) # 0 /\ contains(line, Http10Text)
                 THEN "Http10" ELSE "Http11"
            ELSE IF IsPrefix(SSH_VERSION_PREFIX, b) THEN "Ssh"
            ELSE IF b # <<>> /\ b[1] = 22 THEN "Tls"
            ELSE "Unknown"
    IN dpResult # "none" => dpResult = expected

\* C22 (amended): the same, except that the first line gives Http10 only
\* when it is valid UTF-8 as well; a line that is not UTF-8 gives Http11.
C22_DetectOrderUtf8 ==
    LET b == dpBuf
        line == SubSeq(b, 1, LfPosition(b) - 1)
        expected ==
            IF IsPrefix(HTTP2_PREFACE, b) THEN "Http2"
            ELSE IF \E k \in 1..Len(HTTP_METHODS) : IsPrefix(HTTP_METHODS[k], b)
            THEN IF /\ LfPosition(b) # 0
                    /\ from_utf8_ok(line)
                    /\ contains(line, Http10Text)
                 THEN "Http10" ELSE "Http11"
            ELSE IF IsPrefix(SSH_VERSION_PREFIX, b) THEN "Ssh"
            ELSE IF b # <<>> /\ b[1] = 22 THEN "Tls"
            ELSE "Unknown"
    IN dpResult # "none" => dpResult = expected

\* A request line that names HTTP/1.0 and holds a byte that is not UTF-8
\* was classified as Http11.
C22_Witness ==
    /\ dpBuf = <<71, 69, 84, 32, 47, 255, 32>> \o Http10Text \o <<10>>
    /\ dpResult = "Http11"

(***************************************************************************)
(* Claims about the allowlist functions                                    *)
(***************************************************************************)

\* C24: matching h against the pattern "*.d" succeeds exactly when h equals
\* d or h ends with ".d"; and a host is admitted by an allowlist exactly
\* when at least one pattern matches it, both taken in lower case: the
\* pattern is the host itself, or "*.d" as above, or "*s" with the host
\* ending in s.
C24_WildcardMatch ==
    LET suffix_of(h, t) == Len(t) <= Len(h) /\ SubSeq(h, Len(h) - Len(t) + 1, Len(h)) = t
        wildcard_dot(p) == Len(p) >= 2 /\ p[1] = "*" /\ p[2] = "."
        matched(h, p) ==
            \/ p = h
            \/ wildcard_dot(p) /\ (h = SubSeq(p, 3, Len(p)) \/ suffix_of(h, Tail(p)))
            \/ p # <<>> /\ p[1] = "*" /\ ~wildcard_dot(p) /\ suffix_of(h, Tail(p))
    IN /\ \A i \in 1..Len(alMatches) :
             wildcard_dot(alList[i]) =>
                (alMatches[i] <=> (\/ alHost = SubSeq(alList[i], 3, Len(alList[i]))
                                   \/ suffix_of(alHost, Tail(alList[i]))))
       /\ alAllowed # "none" =>
             (alAllowed = "yes" <=>
                 \E i \in 1..Len(alList) :
                     matched(to_lowercase(alHost), to_lowercase(alList[i])))

\* An upper-case host equal to the domain of the second pattern, "*.a", was
\* matched against both patterns and admitted.
C24_Witness ==
    /\ alHost = <<"A">>
    /\ alList = <<<<"*", "A">>, <<"*", ".", "a">>>>
    /\ alMatches = <<TRUE, FALSE>>
    /\ alAllowed = "yes"

(***************************************************************************)
(* Claims about the HTTP header reader                                     *)
(***************************************************************************)

\* C25: for a request whose first header block ends with CRLF CRLF and
\* holds a line `Host: H`, however its bytes arrive, extract_host returns H
\* trimmed and a count equal to the length of that first header block.
C25_HostAndBlockLength ==
    (hxStream.host # <<>> /\ hxResult.kind # "none") =>
        hxResult = HostOk(hxStream.host[1], hxStream.block)

\* C27: find_headers_end(b) is Some(i) exactly when CR LF CR LF starts at
\* position i - 4 of b and at no earlier position, and None exactly when b
\* does not contain CR LF CR LF.
C27_FirstTerminator ==
    LET b == hxBuffer
        ends_at(i) == i >= 4 /\ i <= Len(b) /\ SubSeq(b, i - 3, i) = CRLFCRLF
    IN IF hxEnd = 0 THEN \A i \in 1..Len(b) : ~ends_at(i)
       ELSE ends_at(hxEnd) /\ \A i \in 1..(hxEnd - 1) : ~ends_at(i)

\* A buffer with two terminators was searched and the first was reported.
C27_Witness ==
    /\ hxBuffer = <<71, 13, 10, 13, 10, 66, 13, 10, 13, 10>>
    /\ hxEnd = 5

\* C26: extract_host reads at most 32 KiB from the client while it looks
\* for the end of the headers, and a request whose header block is longer
\* than 32 KiB is never accepted.
C26_HeaderLimit ==
    /\ hlTotalRead <= 32 * 1024
    /\ hlBlock > 32 * 1024 => hlResult # "Ok"

\* C28: while a proxy with an enabled pool is running, cleanup() is invoked
\* by a periodic task every cleanup_interval seconds, so never more than
\* cleanup_interval seconds pass without a sweep; once the proxy has shut
\* down the task runs no more.
C28_CleanupPeriodic ==
    (swOwner = "run_proxy" /\ swEnabled) =>
        /\ swPc = "select" => now - swLastCleanup <= swInterval
        /\ swPc = "returned" => swTask # "running"

\* C29: get(host) goes through the host's bucket from the entry parked last
\* towards the one parked first: every entry it meets that is older than
\* connection_ttl or idle for longer than idle_timeout is taken out and
\* closed, the first entry that is neither is taken out and returned, and
\* None is returned when no entry is left; the entries parked before the
\* returned one stay, and the buckets of the other hosts are as they were.
C29_ScanFromBack ==
    [][\A h \in Hosts :
         Get(h) =>
           LET b == pools[h]
               expired(i) ==
                   \/ now - b[i].created_at > pool_config.connection_ttl
                   \/ now - b[i].last_used > pool_config.idle_timeout
               live == {i \in 1..Len(b) : ~expired(i)}
               k == IF live = {} THEN 0
                    ELSE CHOOSE i \in live : \A j \in live : j <= i
           IN /\ lastGet'.stream = IF k = 0 THEN None ELSE b[k].stream
              /\ pools'[h] = IF k = 0 THEN <<>> ELSE SubSeq(b, 1, k - 1)
              /\ closed' = closed \cup {b[i].stream : i \in (k + 1)..Len(b)}
              /\ \A g \in Hosts \ {h} : pools'[g] = pools[g]]_vars

\* C29 witness: a get met two expired entries, closed both and returned
\* None, while an entry parked for another host is still in its bucket.
C29_Witness ==
    /\ lastGet.stream = None
    /\ lastGet.pool_evictions = 2
    /\ pools[lastGet.host] = <<>>
    /\ \E g \in Hosts \ {lastGet.host} : Len(pools[g]) = 1

\* C30: every get on an enabled pool, whether or not the host has a bucket,
\* records exactly one outcome: when it returns a stream, one pool_hit and
\* the pool-size gauge lowered by one for it (besides one per entry evicted
\* on the way); when it returns None, one pool_miss.
C30_OneOutcomePerGet ==
    [][\A h \in Hosts :
         (pool_config.enabled /\ (Get(h) \/ GetAbsent(h))) =>
           /\ lastGet'.pool_hits + lastGet'.pool_misses = 1
           /\ lastGet'.stream # None =>
                /\ lastGet'.pool_hits = 1
                /\ pool_metrics'.pool_size =
                      pool_metrics.pool_size - lastGet'.pool_evictions - 1
           /\ lastGet'.stream = None =>
                /\ lastGet'.pool_misses = 1
                /\ pool_metrics'.pool_size =
                      pool_metrics.pool_size - lastGet'.pool_evictions]_vars

\* The stages in which the handler is still classifying the connection and
\* extracting the host name.
Classifying == {"peek", "tls_header", "tls_body", "http_read", "h2_preface",
                "h2_frame_header", "h2_payload"}

\* C31: a connection that ends because of a client fault (a malformed TLS
\* record, a malformed HTTP/2 frame, no Host header, an unknown protocol, a
\* timeout or a reset while it is being classified) adds exactly one to
\* errors_total{"connection"} and is not counted as a success.
C31_ClientFaultCounted ==
    [][(\/ TlsInvalid
        \/ H2Invalid
        \/ HttpNoHost(TRUE)
        \/ (PeekDone /\ hProto = "unknown")
        \/ (StageElapsed /\ hPc \in Classifying)
        \/ (StageIoError /\ hPc \in Classifying))
       => /\ hMetrics'.errors_total = 1
          /\ hMetrics'.connections_total = "failure"]_vars

\* C32: on the HTTP/2 cleartext path whatever the backend has received is
\* the 24-byte preface, then the HEADERS frame (its 9-byte header and its
\* payload) exactly as the client sent it, then the client's later bytes in
\* their order with none left out; when the splice has seen the client's
\* end of stream the backend has every byte that arrived.
C32_PrefaceThenHeaders ==
    h2Backend # <<>> =>
        /\ Len(h2Stream.frame) = 9 + frame_length(h2Stream.frame)
        /\ \E j \in 0..Len(h2Stream.later) :
             h2Backend = HTTP2_PREFACE \o h2Stream.frame \o Take(h2Stream.later, j)
        /\ h2Pc = "done_ok" => h2Backend = Take(H2cBytes(h2Stream), h2Sent)

\* C32 witness: a connection whose HEADERS frame names :authority by index
\* was spliced to the end, two later bytes included.
C32_Witness ==
    /\ h2Pc = "done_ok"
    /\ h2Backend = H2cBytes(h2Stream)
    /\ Len(h2Stream.later) = 2
    /\ h2Read.payload[1] = 65

\* The position of the last ':' of a string, 0 when it has none.
LastColon(str) ==
    LET at == {i \in 1..Len(str) : str[i] = 58}
    IN IF at = {} THEN 0 ELSE CHOOSE i \in at : \A j \in at : j <= i

\* The value of a string of decimal digits, 65536 for anything above 65535
\* and for anything that is not one.
RECURSIVE PortValue(_)
PortValue(str) ==
    IF str = <<>> THEN 0
    ELSE LET d == str[Len(str)]
         IN IF d < 48 \/ d > 57 THEN 65536
            ELSE Min(65536, 10 * PortValue(SubSeq(str, 1, Len(str) - 1)) + (d - 48))

\* A port number in decimal.
IsPort(str) == str # <<>> /\ PortValue(str) <= 65535

\* C34: on the HTTP/2 cleartext path the dial target is host:port, the
\* authority itself when it carries an explicit port and the authority
\* followed by ":80" when it does not.
C34_AuthorityTarget ==
    h2Target # <<>> =>
        LET colon == LastColon(h2Host)
            explicit == colon > 0 /\ IsPort(SubSeq(h2Host, colon + 1, Len(h2Host)))
        IN h2Target = IF explicit THEN h2Host ELSE h2Host \o <<58, 56, 48>>

\* stats().total_connections: the entries parked over all buckets.
RECURSIVE total_connections(_)
total_connections(hosts) ==
    IF hosts = {} THEN 0
    ELSE LET h == CHOOSE x \in hosts : TRUE
         IN Len(pools[h]) + total_connections(hosts \ {h})

\* C39: between pool operations the pool_size gauge equals the number of
\* entries parked in all the buckets together.
C39_GaugeIsParked == pool_metrics.pool_size = total_connections(Hosts)

\* C39 witness: after puts for two hosts, a get that evicted an expired
\* entry, and a cleanup or a second get, one entry is left and counted.
C39_Witness ==
    /\ pool_metrics.pool_size = 1
    /\ lastGet.pool_evictions >= 1
    /\ Cardinality(closed) >= 2
    /\ \E h \in Hosts : Len(pools[h]) = 1

\* C33: with keep-alive enabled no stream is handed out by get more than
\* max_requests_per_connection times, however often it is put back.
C33_VendsBounded ==
    kaConfig.keep_alive_enabled =>
        \A s \in Streams : kaVended[s] <= kaConfig.max_requests_per_connection

\* C35: while a session exists for a client address every datagram received
\* from that address is forwarded to the session's backend, and every
\* datagram the session's handler receives from the backend is forwarded to
\* that client.
C35_SessionForwards ==
    [][/\ \A l \in UdpListeners, src \in ClientAddrs, data \in Datagrams :
            (UdpDatagram(l, src, data) /\ udSessions[src].id # 0) => udLast'.forwarded
       /\ \A id \in SessionIds :
            (ResponseRecv(id) /\ udSessions[udHandlers[id].addr].id = id)
               => udToClient' = udHandlers[id].addr]_vars

\* C36: the session table never holds more than MAX_SESSIONS entries.
C36_SessionsBounded == SessionsLen(udSessions) <= MAX_SESSIONS

\* C37: a response handler that exits removes no session that was created
\* for its client address after its own.
C37_RemovesOwnSession ==
    [][\A id \in SessionIds, timed_out \in BOOLEAN :
         (ResponseExit(id, timed_out) /\ udSessions[udHandlers[id].addr].id > id)
            => udSessions'[udHandlers[id].addr] = udSessions[udHandlers[id].addr]]_vars

\* The sum of the sizes of the entries held.
RECURSIVE EntriesSize(_)
EntriesSize(entries) ==
    IF entries = <<>> THEN 0 ELSE FieldSize(Head(entries)) + EntriesSize(Tail(entries))

\* C38: whenever no insert or clear is in progress on the dynamic table,
\* size() is the sum of name length + value length + 32 over the entries
\* held, and is at most max_table_capacity.
C38_SizeIsSum ==
    (\A t \in QpackTasks : qPc[t] = "idle") =>
        /\ current_size = EntriesSize(qEntries)
        /\ ~UsizeGreater(current_size, MaxTableCapacity)

\* C40: the protocol chosen depends only on the bytes the client sends, not
\* on how TCP cuts them into segments: whatever the classification peek
\* returned, the protocol is the one the first PEEK_SIZE bytes give.
C40_SegmentationIndependent ==
    pkProtocol \notin {"none", "error"} =>
        pkProtocol = detect_protocol(Take(pkStream, PEEK_SIZE))

====
